---- MODULE Spec2Model ----
(***************************************************************************)
(* Intake form -> Copper CRM -> Stripe webhook reconciliation.             *)
(*                                                                         *)
(* The CRM (contacts, opportunities) is the only shared state.  Every      *)
(* inbound request (form submission, checkout redirect, payment webhook)   *)
(* is a process whose steps are its CRM calls: one action per awaited      *)
(* call, together with the local computation that follows it up to the     *)
(* next awaited call.                                                      *)
(*                                                                         *)
(* Text is a non-empty sequence of lines (the text split at "\n"), a line  *)
(* is a sequence of tokens; the empty string is the text of one empty      *)
(* line.  A labelled line "Label: value" is <<Label, ":", " ">> \o value.  *)
(***************************************************************************)
EXTENDS Integers, Sequences, FiniteSets, TLC

(* ------------------------------------------------------------------ *)
(* Program constants (functions/copper.api.ts)                         *)
(* ------------------------------------------------------------------ *)
ESTATE_PLANNING_PIPELINE_ID == 1130648
PAID_STAGE_ID == 5076181
COMPLETED_QUIZ_STAGE_ID == 5076179
FIELD_IDS ==
    [phone |-> 722611, responderStatus |-> 722612, dswNumber |-> 722613,
     department |-> 722614, maritalStatus |-> 722615, dependants |-> 722616,
     realEstate |-> 722617, lifeInsurance |-> 722618, existingTrust |-> 722619,
     selectedPackage |-> 722620, referredBy |-> 723226, paymentLink |-> 727706]

(* ------------------------------------------------------------------ *)
(* Bounds of the model                                                 *)
(* ------------------------------------------------------------------ *)
\* number of inbound requests handled in one behaviour
MaxRequests == 3
\* number of remote calls that fail in one behaviour
MaxFaults == 1
\* number of requests handled at the same time
MaxInFlight == 2

(* ------------------------------------------------------------------ *)
(* Text                                                                *)
(* ------------------------------------------------------------------ *)
\* the empty string ''
EmptyText == << <<>> >>

\* a value that is `undefined` (absent), as opposed to the empty string <<>>
Undefined == <<"<undefined>">>

\* JavaScript truthiness of an optional string
Truthy(v) == v # Undefined /\ v # <<>>

\* a one-token string as a token sequence ('' is the empty sequence)
Str(v) == IF v = "" THEN <<>> ELSE <<v>>

\* `${a}\n${b}`
JoinNL(a, b) == a \o b

\* `${label}: ${value}`
Line(label, value) == <<label, ":", " ">> \o value

\* whether /^label:.*$/m matches at this line
LineHasLabel(l, label) == Len(l) >= 2 /\ l[1] = label /\ l[2] = ":"

\* String.prototype.includes for a needle without line breaks
LineIncludes(l, needle) ==
    \E i \in 0..(Len(l) - Len(needle)) : SubSeq(l, i + 1, i + Len(needle)) = needle

Includes(text, needle) == \E k \in 1..Len(text) : LineIncludes(text[k], needle)

Min(S) == CHOOSE x \in S : \A y \in S : x <= y

\* the replacement string of String.prototype.replace: "$&" inserts the match
RECURSIVE ExpandReplacement(_, _)
ExpandReplacement(repl, matched) ==
    IF repl = <<>> THEN <<>>
    ELSE (IF Head(repl) = "$&" THEN matched ELSE <<Head(repl)>>)
            \o ExpandReplacement(Tail(repl), matched)

\* a variant that skips every falsy value, the empty string included
UpsertOne_skipEmpty(output, label, value) ==
    IF ~Truthy(value) THEN output
    ELSE LET line == Line(label, value)
             hits == {i \in 1..Len(output) : LineHasLabel(output[i], label)}
         IN IF hits # {}
            THEN [output EXCEPT ![Min(hits)] = ExpandReplacement(line, output[Min(hits)])]
            ELSE IF output # EmptyText THEN JoinNL(output, <<line>>) ELSE <<line>>

\* a variant whose pattern is global: every matching line is replaced
UpsertOne_global(output, label, value) ==
    IF value = Undefined THEN output
    ELSE LET line == Line(label, value)
             hits == {i \in 1..Len(output) : LineHasLabel(output[i], label)}
         IN IF hits # {}
            THEN [i \in 1..Len(output) |->
                    IF i \in hits THEN ExpandReplacement(line, output[i]) ELSE output[i]]
            ELSE IF output # EmptyText THEN JoinNL(output, <<line>>) ELSE <<line>>

\* one iteration of the forEach in upsertDetailsLines
UpsertOne(output, label, value) ==
    IF value = Undefined THEN output
    ELSE LET line == Line(label, value)
             hits == {i \in 1..Len(output) : LineHasLabel(output[i], label)}
         IN IF hits # {}
            THEN [output EXCEPT ![Min(hits)] = ExpandReplacement(line, output[Min(hits)])]
            ELSE IF output # EmptyText THEN JoinNL(output, <<line>>) ELSE <<line>>

\* upsertDetailsLines(details, updates); updates is the sequence of
\* Object.entries(updates): <<label, value>> pairs in insertion order
RECURSIVE upsertDetailsLines(_, _)
upsertDetailsLines(details, updates) ==
    IF updates = <<>> THEN details
    ELSE upsertDetailsLines(UpsertOne(details, Head(updates)[1], Head(updates)[2]),
                            Tail(updates))

(* ------------------------------------------------------------------ *)
(* markOpportunityPaid: the text it builds                             *)
(* ------------------------------------------------------------------ *)
\* the lines pushed for the payment fields that are present (truthy)
PaymentLines(info) ==
    (IF Truthy(info.invoiceId) THEN <<Line("Stripe Invoice ID", info.invoiceId)>> ELSE <<>>)
    \o (IF Truthy(info.invoiceUrl) THEN <<Line("Stripe Invoice URL", info.invoiceUrl)>> ELSE <<>>)
    \o (IF Truthy(info.sessionId) THEN <<Line("Stripe Session ID", info.sessionId)>> ELSE <<>>)
    \o (IF Truthy(info.paymentIntentId)
        THEN <<Line("Stripe Payment Intent", info.paymentIntentId)>> ELSE <<>>)

\* paymentLines.filter(line => !existingDetails.includes(line))
NewPaymentLines(existingDetails, info) ==
    SelectSeq(PaymentLines(info), LAMBDA l : ~Includes(existingDetails, l))

\* updatedDetails of markOpportunityPaid
PaidDetails(existingDetails, info) ==
    LET newPaymentLines == NewPaymentLines(existingDetails, info)
        paymentBlock == << <<"Stripe Payment">> >> \o newPaymentLines
        appended == IF newPaymentLines # <<>>
                    THEN IF existingDetails # EmptyText
                         THEN JoinNL(JoinNL(existingDetails, EmptyText), paymentBlock)
                         ELSE paymentBlock
                    ELSE existingDetails
    IN upsertDetailsLines(appended, << <<"Checkout State", <<"Paid">> >> >>)

\* the PUT payload of markOpportunityPaid: details is set only when the
\* text is non-empty and differs from what was read
PaidPayload(existingDetails, info) ==
    LET updatedDetails == PaidDetails(existingDetails, info)
    IN IF updatedDetails # EmptyText /\ updatedDetails # existingDetails
       THEN [pipeline_stage_id |-> PAID_STAGE_ID, details |-> updatedDetails]
       ELSE [pipeline_stage_id |-> PAID_STAGE_ID]

(* ------------------------------------------------------------------ *)
(* createCopperOpportunity: the record it posts                        *)
(* ------------------------------------------------------------------ *)
\* packageNames is an object literal: a lookup of a key it does not own
\* finds the member of Object.prototype of that name, printed here as the
\* template literal prints it
ObjectPrototype ==
    [constructor |-> "function Object() { [native code] }",
     toString |-> "function toString() { [native code] }"]

\* packageNames[code], "" standing for undefined
packageNames(code) ==
    CASE code = "will" -> "Will Package"
      [] code = "trust-individual" -> "Trust (Individual)"
      [] code = "trust-couple" -> "Trust (Couples)"
      [] code = "trust-update" -> "Update Existing Trust"
      [] code \in DOMAIN ObjectPrototype -> ObjectPrototype[code]
      [] OTHER -> ""

\* 0 stands for a name the directory does not hold
representativeMapping(name) ==
    CASE name = "Caleb Taylor" -> 1206272
      [] name = "Ian Curran" -> 1202942
      [] name = "Chet Radish" -> 1202913
      [] name = "Eli Sakov" -> 1213114
      [] name = "James Garner" -> 1202796
      [] name = "Sandro Magalhaes" -> 1219949
      [] name = "Natalie Retes" -> 1206271
      [] OTHER -> 0

SelectedPackage(formData) ==
    IF formData.selectedPackage # "" THEN formData.selectedPackage ELSE "will"

PackageName(formData) ==
    IF packageNames(SelectedPackage(formData)) # ""
    THEN packageNames(SelectedPackage(formData)) ELSE "Will Package"

\* `${formData.phone}`: an absent phone prints as "undefined"
PhoneText(phone) == IF phone = <<>> THEN <<"undefined">> ELSE phone

\* the body of POST /opportunities
OpportunityPayload(formData, personId) ==
    [name |-> <<formData.firstName, " ", formData.lastName, " - ", PackageName(formData)>>,
     pipeline_id |-> ESTATE_PLANNING_PIPELINE_ID,
     pipeline_stage_id |-> COMPLETED_QUIZ_STAGE_ID,
     primary_contact_id |-> personId,
     details |-> << Line("Name", <<formData.firstName, " ", formData.lastName>>),
                    Line("Email", <<formData.email>>),
                    Line("Phone", PhoneText(formData.phone)),
                    <<>>,
                    <<"Submitted via prepareheroes.org">>,
                    Line("Package", <<PackageName(formData)>>),
                    Line("Referred By",
                         <<IF formData.referredBy # "" THEN formData.referredBy ELSE "None">>) >>,
     custom_fields |->
        << <<FIELD_IDS.phone, formData.phone>>,
           <<FIELD_IDS.responderStatus, Str(formData.responderStatus)>>,
           <<FIELD_IDS.dswNumber, Str(formData.dswNumber)>>,
           <<FIELD_IDS.department, Str(formData.department)>>,
           <<FIELD_IDS.maritalStatus, Str(formData.maritalStatus)>>,
           <<FIELD_IDS.dependants, Str(formData.dependants)>>,
           <<FIELD_IDS.realEstate, Str(formData.realEstate)>>,
           <<FIELD_IDS.lifeInsurance, Str(formData.lifeInsurance)>>,
           <<FIELD_IDS.existingTrust, Str(formData.existingTrust)>>,
           <<FIELD_IDS.selectedPackage, <<SelectedPackage(formData)>> >>,
           <<FIELD_IDS.referredBy, Str(formData.referredBy)>> >>,
     assignee_id |-> IF formData.referredBy # ""
                     THEN representativeMapping(formData.referredBy) ELSE 0]

(* ------------------------------------------------------------------ *)
(* State                                                               *)
(* ------------------------------------------------------------------ *)
VARIABLES
    people,     \* CRM contacts, indexed by the id the CRM assigned
    opps,       \* CRM opportunities, indexed by the id the CRM assigned
    crmSort,    \* the order in which the CRM lists search results
    workload,   \* the inputs the requests of this behaviour are drawn from
    faults,     \* the number of remote calls that have failed
    req,        \* the inbound requests: input, position, locals, response
    upsert      \* upsertDetailsLines on its own: arguments and returned texts

vars == <<people, opps, crmSort, workload, faults, req, upsert>>

Requests == 1..MaxRequests

\* how a CRM (or Stripe) call can end: 2xx, non-2xx, or fetch rejecting
Outcomes == IF faults < MaxFaults THEN {"ok", "http_error", "net_error"} ELSE {"ok"}

Outcome(out) == faults' = IF out = "ok" THEN faults ELSE faults + 1

(* ------------------------------------------------------------------ *)
(* Inputs                                                              *)
(* ------------------------------------------------------------------ *)
BlankForm ==
    [firstName |-> "", lastName |-> "", email |-> "", phone |-> <<>>,
     responderStatus |-> "", dswNumber |-> "", department |-> "",
     maritalStatus |-> "", dependants |-> "", realEstate |-> "",
     lifeInsurance |-> "", existingTrust |-> "", selectedPackage |-> "",
     referredBy |-> ""]

\* phone numbers are character sequences; "5" and "7" are digits
PhoneA == <<"(", "5", ")", "7">>
PhoneAPlain == <<"5", "7">>
PhoneB == <<"7", "5">>
PhoneC == <<"7", "7">>

FormAnn == [BlankForm EXCEPT !.firstName = "Ann", !.lastName = "Lee",
                             !.email = "ann@x", !.phone = PhoneA,
                             !.selectedPackage = "trust-couple",
                             !.referredBy = "Ian Curran"]
FormBob == [BlankForm EXCEPT !.firstName = "Bob", !.lastName = "Ray",
                             !.email = "bob@x", !.selectedPackage = "estate"]

\* Ann again, from another phone
FormAnnAgain == [FormAnn EXCEPT !.phone = PhoneB, !.selectedPackage = "will",
                                !.responderStatus = "civilian", !.referredBy = ""]
\* Ann once more, from a third phone
FormAnnWork == [FormAnnAgain EXCEPT !.phone = PhoneC]
\* Ann with the number the CRM stores for her, written without punctuation
FormAnnPlain == [FormAnnAgain EXCEPT !.phone = PhoneAPlain]
\* somebody the CRM does not know
FormCat == [BlankForm EXCEPT !.firstName = "Cat", !.lastName = "Doe",
                             !.email = "cat@x", !.selectedPackage = "trust-update",
                             !.responderStatus = "civilian"]
\* payloads without email, without first name, without last name
FormNoEmail == [FormCat EXCEPT !.email = ""]
FormNoFirstName == [FormCat EXCEPT !.firstName = ""]
FormNoLastName == [FormCat EXCEPT !.lastName = ""]

BlankEvent ==
    [type |-> "", id |-> <<>>, client_reference_id |-> 0, metadata_opportunity_id |-> 0,
     customer_details_email |-> "", customer_email |-> "",
     customer_details_phone |-> <<>>, customer_phone |-> <<>>,
     invoice_id |-> Undefined, hosted_invoice_url |-> Undefined,
     payment_intent |-> Undefined,
     customer |-> "", stripe_customer_email |-> "", stripe_customer_phone |-> <<>>]

Checkout == "checkout.session.completed"
InvoicePaid == "invoice.payment_succeeded"

\* checkout session paid through the short link of opportunity 1
EvDirect == [BlankEvent EXCEPT !.type = Checkout, !.id = <<"cs_1">>,
                !.client_reference_id = 1, !.customer_details_email = "ann@x",
                !.invoice_id = <<"in_1">>, !.hosted_invoice_url = <<"url_1">>,
                !.payment_intent = <<"pi_1">>]
\* checkout session without reference; Ann's email (two open opportunities)
EvEmailAnn == [BlankEvent EXCEPT !.type = Checkout, !.id = <<"cs_2">>,
                !.customer_details_email = "ann@x", !.payment_intent = <<"pi_2">>]
\* checkout session without reference; Bob's email (one open opportunity)
EvEmailBob == [BlankEvent EXCEPT !.type = Checkout, !.id = <<"cs_3">>,
                !.customer_email = "bob@x", !.customer_details_phone = PhoneB,
                !.invoice_id = <<"in_3">>]
\* checkout session without reference; unknown email, Ann's phone
EvPhoneAnn == [BlankEvent EXCEPT !.type = Checkout, !.id = <<"cs_4">>,
                !.customer_details_email = "zed@x", !.customer_phone = PhoneAPlain]
\* checkout session nobody matches
EvNoMatch == [BlankEvent EXCEPT !.type = Checkout, !.id = <<"cs_5">>,
                !.customer_details_email = "zed@x", !.customer_details_phone = PhoneB]
\* invoice carrying the opportunity id in its metadata
EvInvoiceDirect == [BlankEvent EXCEPT !.type = InvoicePaid, !.metadata_opportunity_id = 3,
                !.invoice_id = <<"in_6">>, !.hosted_invoice_url = <<"url_6">>,
                !.customer = "cus_1", !.stripe_customer_email = "ann@x"]
\* invoice without reference; the email comes from the Stripe customer
EvInvoiceCustomer == [BlankEvent EXCEPT !.type = InvoicePaid, !.invoice_id = <<"in_7">>,
                !.customer = "cus_2", !.stripe_customer_email = "bob@x",
                !.stripe_customer_phone = PhoneAPlain]
\* an event of a type the handler does not dispatch on: the payment of an
\* invoice of opportunity 1 failed
EvOther == [BlankEvent EXCEPT !.type = "invoice.payment_failed",
                !.metadata_opportunity_id = 1, !.invoice_id = <<"in_0">>,
                !.customer_email = "ann@x"]

\* a second payment through the short link of opportunity 1; its session id
\* starts with the characters of EvDirect's
EvDirectAgain == [EvDirect EXCEPT !.id = <<"cs_1", "b">>, !.invoice_id = <<"in_9">>,
                !.hosted_invoice_url = Undefined, !.payment_intent = <<"pi_9">>]

\* the first payment through the short link of a new opportunity
EvPayNew == [BlankEvent EXCEPT !.type = Checkout, !.id = <<"cs_8">>,
                !.client_reference_id = 5, !.customer_details_email = "cat@x",
                !.invoice_id = <<"in_8">>]

\* the id path segments tried: none, two opportunities, an unknown id
RedirectIds == {0, 1, 4, 9}

\* One behaviour draws its requests from one workload: requests that touch
\* no common CRM record are not mixed.  checkoutLinkEnabled is the
\* deployment's setting of the checkout-link workflow.
Workload(events, forms, ids, checkoutLinkEnabled) ==
    [events |-> events, forms |-> forms, ids |-> ids,
     checkoutLinkEnabled |-> checkoutLinkEnabled]

Workloads ==
    { Workload({e}, {}, {}, FALSE) :
        e \in {EvDirect, EvEmailAnn, EvEmailBob, EvPhoneAnn, EvNoMatch,
               EvInvoiceDirect, EvInvoiceCustomer, EvOther} }
    \cup { Workload({EvDirect, EvDirectAgain}, {}, {}, FALSE),
           Workload({}, {FormAnnAgain, FormAnnWork, FormCat}, {}, FALSE),
           Workload({}, {FormAnnAgain, FormAnnPlain}, {}, FALSE),
           Workload({}, {FormCat, FormNoEmail, FormNoFirstName, FormNoLastName}, {}, TRUE),
           Workload({EvEmailAnn}, {FormAnnAgain}, {}, FALSE),
           Workload({EvDirect}, {}, RedirectIds, FALSE),
           Workload({EvPayNew}, {FormCat}, {5}, TRUE) }

(* ------------------------------------------------------------------ *)
(* The CRM: what its endpoints answer                                  *)
(* ------------------------------------------------------------------ *)
Max(S) == CHOOSE x \in S : \A y \in S : x >= y

\* the ids of S in the order the CRM lists them
RECURSIVE Listed(_)
Listed(S) ==
    IF S = {} THEN <<>>
    ELSE LET m == IF crmSort = "oldest_first" THEN Min(S) ELSE Max(S)
         IN <<m>> \o Listed(S \ {m})

Page(list, page_size) == SubSeq(list, 1, IF Len(list) < page_size THEN Len(list) ELSE page_size)

IsDigit(c) == c \in {"0", "1", "2", "3", "4", "5", "6", "7", "8", "9"}

\* value.replace(/\D/g, '')
Digits(number) == SelectSeq(number, IsDigit)

\* POST /people/search {emails: [email], page_size: 1}
PeopleSearchByEmail(email) ==
    Page(Listed({i \in DOMAIN people :
                    \E k \in DOMAIN people[i].emails : people[i].emails[k].email = email}), 1)

\* a variant that answers with a contact whatever the number
PeopleSearchByPhone_anyone(phone) == Page(Listed(DOMAIN people), 1)

\* POST /people/search {phone_number: phone, page_size: 1}: the CRM matches
\* numbers by their digits
PeopleSearchByPhone(phone) ==
    Page(Listed({i \in DOMAIN people :
                    \E k \in DOMAIN people[i].phone_numbers :
                        Digits(people[i].phone_numbers[k].number) = Digits(phone)}), 1)

\* a variant of the search without the status filter
OpportunitySearchOpen_anyStatus(personId) ==
    Page(Listed({i \in DOMAIN opps :
                    /\ opps[i].primary_contact_id = personId
                    /\ opps[i].pipeline_id = ESTATE_PLANNING_PIPELINE_ID}), 5)

\* POST /opportunities/search {primary_contact_ids, pipeline_ids, status: ['Open'], page_size: 5}
OpportunitySearchOpen(personId) ==
    Page(Listed({i \in DOMAIN opps :
                    /\ opps[i].primary_contact_id = personId
                    /\ opps[i].pipeline_id = ESTATE_PLANNING_PIPELINE_ID
                    /\ opps[i].status = "Open"}), 5)

OpportunityExists(id) == id \in DOMAIN opps

\* how the CRM applies the custom_fields of an update: by definition id
RECURSIVE MergeFields(_, _)
MergeFields(stored, given) ==
    IF given = <<>> THEN stored
    ELSE LET f == Head(given)
             hits == {k \in DOMAIN stored : stored[k][1] = f[1]}
         IN MergeFields(IF hits = {} THEN Append(stored, f)
                        ELSE [k \in DOMAIN stored |-> IF k \in hits THEN f ELSE stored[k]],
                        Tail(given))

\* a variant in which the CRM merges the notes it is sent into the stored ones
Updated_merging(stored, payload) ==
    [k \in DOMAIN stored |->
        IF k \notin DOMAIN payload THEN stored[k]
        ELSE IF k = "custom_fields" THEN MergeFields(stored[k], payload[k])
        ELSE IF k = "details"
        THEN stored[k] \o SelectSeq(payload[k],
                                    LAMBDA l : \A j \in DOMAIN stored[k] : stored[k][j] # l)
        ELSE payload[k]]

\* PUT /opportunities/:id: the record after the update; a field the body
\* does not carry keeps its value
Updated(stored, payload) ==
    [k \in DOMAIN stored |->
        IF k \notin DOMAIN payload THEN stored[k]
        ELSE IF k = "custom_fields" THEN MergeFields(stored[k], payload[k])
        ELSE payload[k]]

\* how a call on opportunity `id` ends: the CRM answers 404 for an unknown id
OpportunityAnswer(id, out) ==
    IF out = "ok" /\ ~OpportunityExists(id) THEN "http_error" ELSE out

(* ------------------------------------------------------------------ *)
(* Requests                                                            *)
(* ------------------------------------------------------------------ *)
IdleRequest ==
    [kind |-> "none", pc |-> "idle",
     after |-> {}, method |-> "", signature |-> "", event |-> BlankEvent, form |-> BlankForm, id |-> 0,
     status |-> 0, body |-> "",
     phases |-> <<>>, calls |-> <<>>,
     opportunityId |-> 0, matchMethod |-> "", customer |-> FALSE,
     person |-> 0, personPhones |-> <<>>,
     existingDetails |-> EmptyText, existingCustomFields |-> <<>>,
     checkoutLink |-> <<>>, error |-> <<>>, location |-> <<>>]

\* a request starts only when the requests before it have started
InFlight == {q \in Requests : req[q].pc \notin {"idle", "done"}}

CanStart(r) ==
    /\ req[r].pc = "idle"
    /\ \A q \in 1..(r - 1) : req[q].pc # "idle"
    /\ Cardinality(InFlight) < MaxInFlight

\* the request has issued call `op` on the record `id` (0: a collection),
\* and the call ended as `out`
Called(q, op, id, out) ==
    [q EXCEPT !.calls = Append(@, [op |-> op, id |-> id, out |-> out])]

\* the requests that were answered before this one arrived
Answered == {q \in Requests : req[q].pc = "done"}

Respond(q, status, body) == [q EXCEPT !.pc = "done", !.status = status, !.body = body]

Entered(q, phase) == [q EXCEPT !.phases = Append(@, phase)]

(* ------------------------------------------------------------------ *)
(* functions/api/stripe_webhook.js                                     *)
(* ------------------------------------------------------------------ *)
Methods == {"POST", "GET"}

\* what stripe.webhooks.constructEventAsync makes of body and header
Signatures == {"valid", "no_header", "no_match"}

SignatureError(signature) ==
    IF signature = "no_header"
    THEN "No stripe-signature header value was provided."
    ELSE "No signatures found matching the expected signature for payload."

\* a variant that accepts every signature
constructEventAsync_lax(signature) == TRUE

\* whether stripe.webhooks.constructEventAsync resolves
constructEventAsync(signature) == signature = "valid"

Received == <<"{\"received\":true}">>

\* session.client_reference_id || session.metadata?.opportunity_id, and
\* invoice.metadata?.opportunity_id
DirectId(event) ==
    IF event.type = Checkout /\ event.client_reference_id # 0
    THEN event.client_reference_id
    ELSE event.metadata_opportunity_id

\* the email the fallback looks up
EventEmail(q) ==
    IF q.event.type = Checkout
    THEN IF q.event.customer_details_email # ""
         THEN q.event.customer_details_email ELSE q.event.customer_email
    ELSE IF q.event.customer_email # "" THEN q.event.customer_email
         ELSE IF q.customer THEN q.event.stripe_customer_email ELSE ""

\* the phone the fallback looks up
EventPhone(q) ==
    IF q.event.type = Checkout
    THEN IF q.event.customer_details_phone # <<>>
         THEN q.event.customer_details_phone ELSE q.event.customer_phone
    ELSE IF q.customer THEN q.event.stripe_customer_phone ELSE <<>>

\* the paymentInfo argument of markOpportunityPaid
PaymentInfo(event) ==
    [invoiceId |-> event.invoice_id,
     invoiceUrl |-> event.hosted_invoice_url,
     sessionId |-> IF event.type = Checkout THEN event.id ELSE Undefined,
     paymentIntentId |-> event.payment_intent]

\* the message of the error a failed fetch rejects with
FetchError == <<"fetch failed">>

\* response.status of the CRM's answer to a call on opportunity `id`
ResponseStatus(id, out) ==
    IF out = "http_error" THEN 500 ELSE IF OpportunityExists(id) THEN 200 ELSE 404

\* what a failed update throws: `Copper update failed: ${response.status}`
\* for a non-2xx answer, fetch's own error for a rejected request
UpdateError(id, out) ==
    IF out = "net_error" THEN FetchError
    ELSE <<"Copper update failed: ", ToString(ResponseStatus(id, out))>>

\* a variant whose catch blocks acknowledge the event
HandlerFailed_acknowledged(q) == Respond(Entered(q, "failed"), 200, Received)

\* the catch blocks of onRequest
HandlerFailed(q) == Respond(Entered(q, "failed"), 500, <<"Webhook handler failed">>)

\* a variant that applies whether or not an id was resolved
ActionStep_unconditional(q) ==
    [Entered(q, "resolved") EXCEPT !.pc = "markOpportunityPaid_GET"]

\* // Action
ActionStep(q) ==
    IF q.opportunityId # 0
    THEN [Entered(q, "resolved") EXCEPT !.pc = "markOpportunityPaid_GET"]
    ELSE Respond(Entered(q, "unresolved"), 200, Received)

\* a variant that looks the phone up whatever the steps before it found
PhoneFallback_always(q) ==
    IF EventPhone(q) # <<>>
    THEN [q EXCEPT !.pc = "findPersonByPhone"]
    ELSE ActionStep(q)

\* // 3. Phone Fallback
PhoneFallback(q) ==
    IF q.opportunityId = 0 /\ EventPhone(q) # <<>>
    THEN [q EXCEPT !.pc = "findPersonByPhone"]
    ELSE ActionStep(q)

\* a variant that looks the email up even when the event carries an id
EmailFallback_always(q) ==
    IF EventEmail(q) # ""
    THEN [q EXCEPT !.pc = "findPersonByEmail"]
    ELSE PhoneFallback(q)

\* // 2. Email Fallback
EmailFallback(q) ==
    IF q.opportunityId = 0 /\ EventEmail(q) # ""
    THEN [q EXCEPT !.pc = "findPersonByEmail"]
    ELSE PhoneFallback(q)

\* a variant that handles every type other than the checkout's as a paid
\* invoice
Dispatch_anyType(q) ==
    IF q.event.type = Checkout THEN EmailFallback(q)
    ELSE IF q.event.customer # "" THEN [q EXCEPT !.pc = "retrieveCustomer"]
         ELSE EmailFallback(q)

\* the dispatch of onRequest on the verified event's type
Dispatch(q) ==
    CASE q.event.type = Checkout -> EmailFallback(q)
      [] q.event.type = InvoicePaid ->
            IF q.event.customer # "" THEN [q EXCEPT !.pc = "retrieveCustomer"]
            ELSE EmailFallback(q)
      [] OTHER -> Respond(q, 200, Received)

\* onRequest up to its first awaited remote call
Webhook_onRequest(r) ==
    /\ CanStart(r)
    /\ workload.events # {}
    /\ \E method \in Methods, signature \in Signatures :
        LET q == Entered([IdleRequest EXCEPT !.kind = "webhook", !.after = Answered,
                                             !.method = method,
                                             !.signature = signature], "received")
        IN \/ /\ method # "POST"
              /\ req' = [req EXCEPT ![r] = Respond(q, 405, <<"Method Not Allowed">>)]
           \/ /\ method = "POST"
              /\ ~constructEventAsync(signature)
              /\ req' = [req EXCEPT ![r] =
                            Respond(Entered(q, "rejected"), 400,
                                    <<"Webhook Error: ", SignatureError(signature)>>)]
           \/ /\ method = "POST"
              /\ constructEventAsync(signature)
              /\ \E event \in workload.events :
                    req' = [req EXCEPT ![r] =
                              Dispatch([Entered(q, "verified") EXCEPT
                                          !.event = event,
                                          !.opportunityId = DirectId(event),
                                          !.matchMethod = "direct_id"])]
    /\ UNCHANGED <<people, opps, crmSort, workload, upsert, faults>>

\* stripe.customers.retrieve(customerId), caught when it fails
Webhook_retrieveCustomer(r) ==
    /\ req[r].kind = "webhook" /\ req[r].pc = "retrieveCustomer"
    /\ \E out \in Outcomes :
        /\ Outcome(out)
        /\ req' = [req EXCEPT ![r] =
                  EmailFallback([Called(req[r], "stripe customers.retrieve", 0, out)
                                    EXCEPT !.customer = (out = "ok")])]
    /\ UNCHANGED <<people, opps, crmSort, workload, upsert>>

\* findPersonByEmail / findPersonByPhone as the handlers use them: `found`
\* is the CRM's answer, `next` the step that follows a match
PersonLookup(q, out, found, next) ==
    IF out = "net_error" THEN HandlerFailed(q)
    ELSE IF out = "ok" /\ found # <<>>
         THEN [q EXCEPT !.person = found[1], !.pc = next]
         ELSE IF next = "findOpenOpportunityByEmail" THEN PhoneFallback(q) ELSE ActionStep(q)

Webhook_findPersonByEmail(r) ==
    /\ req[r].kind = "webhook" /\ req[r].pc = "findPersonByEmail"
    /\ \E out \in Outcomes :
        /\ Outcome(out)
        /\ req' = [req EXCEPT ![r] =
                  PersonLookup(Called(req[r], "POST /people/search emails", 0, out), out,
                               PeopleSearchByEmail(EventEmail(req[r])),
                               "findOpenOpportunityByEmail")]
    /\ UNCHANGED <<people, opps, crmSort, workload, upsert>>

Webhook_findPersonByPhone(r) ==
    /\ req[r].kind = "webhook" /\ req[r].pc = "findPersonByPhone"
    /\ \E out \in Outcomes :
        /\ Outcome(out)
        /\ req' = [req EXCEPT ![r] =
                  PersonLookup(Called(req[r], "POST /people/search phone_number", 0, out), out,
                               PeopleSearchByPhone(EventPhone(req[r])),
                               "findOpenOpportunityByPhone")]
    /\ UNCHANGED <<people, opps, crmSort, workload, upsert>>

\* a variant that takes the last element of the result
findOpenOpportunityForPerson_last(out, data) ==
    IF out # "ok" THEN 0
    ELSE IF Len(data) = 0 THEN 0 ELSE data[Len(data)]

\* findOpenOpportunityForPerson(personId): data[0].id, or null (0)
findOpenOpportunityForPerson(out, data) ==
    IF out # "ok" THEN 0
    ELSE IF Len(data) = 0 THEN 0 ELSE data[1]

OpenLookup(q, out, method) ==
    IF out = "net_error" THEN HandlerFailed(q)
    ELSE LET id == findOpenOpportunityForPerson(out, OpportunitySearchOpen(q.person))
         IN [q EXCEPT !.opportunityId = id,
                      !.matchMethod = IF id # 0 THEN method ELSE @]

Webhook_findOpenOpportunityByEmail(r) ==
    /\ req[r].kind = "webhook" /\ req[r].pc = "findOpenOpportunityByEmail"
    /\ \E out \in Outcomes :
        /\ Outcome(out)
        /\ LET q == OpenLookup(Called(req[r], "POST /opportunities/search", 0, out), out,
                               "email_fallback")
           IN req' = [req EXCEPT ![r] = IF q.pc = "done" THEN q ELSE PhoneFallback(q)]
    /\ UNCHANGED <<people, opps, crmSort, workload, upsert>>

Webhook_findOpenOpportunityByPhone(r) ==
    /\ req[r].kind = "webhook" /\ req[r].pc = "findOpenOpportunityByPhone"
    /\ \E out \in Outcomes :
        /\ Outcome(out)
        /\ LET q == OpenLookup(Called(req[r], "POST /opportunities/search", 0, out), out,
                               "phone_fallback")
           IN req' = [req EXCEPT ![r] = IF q.pc = "done" THEN q ELSE ActionStep(q)]
    /\ UNCHANGED <<people, opps, crmSort, workload, upsert>>

\* markOpportunityPaid: the read of the current opportunity
markOpportunityPaid_GET(r) ==
    /\ req[r].kind = "webhook" /\ req[r].pc = "markOpportunityPaid_GET"
    /\ \E out \in Outcomes :
        /\ Outcome(out)
        /\ LET q == Called(req[r], "GET /opportunities/:id", req[r].opportunityId,
                           OpportunityAnswer(req[r].opportunityId, out))
           IN req' = [req EXCEPT ![r] =
                         [q EXCEPT !.pc = "markOpportunityPaid_PUT",
                                   !.existingDetails =
                                       IF out = "ok" /\ OpportunityExists(q.opportunityId)
                                       THEN opps[q.opportunityId].details ELSE EmptyText]]
    /\ UNCHANGED <<people, opps, crmSort, workload, upsert>>

\* markOpportunityPaid: the update, and the handler's return
markOpportunityPaid_PUT(r) ==
    /\ req[r].kind = "webhook" /\ req[r].pc = "markOpportunityPaid_PUT"
    /\ \E out \in Outcomes :
        /\ Outcome(out)
        /\ LET q == Called(req[r], "PUT /opportunities/:id", req[r].opportunityId,
                           OpportunityAnswer(req[r].opportunityId, out))
               payload == PaidPayload(q.existingDetails, PaymentInfo(q.event))
           IN IF out = "ok" /\ OpportunityExists(q.opportunityId)
              THEN /\ opps' = [opps EXCEPT ![q.opportunityId] = Updated(@, payload)]
                   /\ req' = [req EXCEPT ![r] = Respond(Entered(q, "applied"), 200, Received)]
              ELSE /\ opps' = opps
                   /\ req' = [req EXCEPT ![r] =
                                 HandlerFailed([q EXCEPT !.error =
                                                   UpdateError(q.opportunityId, out)])]
    /\ UNCHANGED <<people, crmSort, workload, upsert>>

\* a variant that drops the link to the contact
Stored_unlinked(payload) ==
    [name |-> payload.name, pipeline_id |-> payload.pipeline_id,
     pipeline_stage_id |-> payload.pipeline_stage_id,
     primary_contact_id |-> 0,
     details |-> payload.details, custom_fields |-> payload.custom_fields,
     assignee_id |-> payload.assignee_id, status |-> "Open"]

\* what the CRM stores for a posted opportunity
Stored(payload) ==
    [name |-> payload.name, pipeline_id |-> payload.pipeline_id,
     pipeline_stage_id |-> payload.pipeline_stage_id,
     primary_contact_id |-> payload.primary_contact_id,
     details |-> payload.details, custom_fields |-> payload.custom_fields,
     assignee_id |-> payload.assignee_id, status |-> "Open"]

\* what createPerson posts
PersonPayload(formData) ==
    [name |-> <<formData.firstName, " ", formData.lastName>>,
     emails |-> << [email |-> formData.email, category |-> "work"] >>,
     phone_numbers |-> IF formData.phone # <<>>
                       THEN << [number |-> formData.phone, category |-> "mobile"] >>
                       ELSE <<>>]

(* ------------------------------------------------------------------ *)
(* The form submission handler (api/submit_quiz)                       *)
(* ------------------------------------------------------------------ *)
SubmitMethods == {"POST", "OPTIONS"}

Origin == "https://prepareheroes.org"

\* the catch block of onRequest: 500 with error.message
SubmitFailed(q, message) ==
    Respond([q EXCEPT !.error = message], 500, <<"success:false">>)

\* a variant that does not look at the email
MissingRequired_namesOnly(formData) == formData.firstName = "" \/ formData.lastName = ""

\* !formData.firstName || !formData.lastName || !formData.email
MissingRequired(formData) ==
    formData.firstName = "" \/ formData.lastName = "" \/ formData.email = ""

\* onRequest up to its first CRM call
Submit_onRequest(r) ==
    /\ CanStart(r)
    /\ workload.forms # {}
    /\ LET q == [IdleRequest EXCEPT !.kind = "submit", !.after = Answered]
       IN \/ \E method \in SubmitMethods \ {"POST"} :
                req' = [req EXCEPT ![r] =
                          Respond([q EXCEPT !.method = method],
                                  IF method = "OPTIONS" THEN 204 ELSE 405, <<>>)]
          \/ \E formData \in workload.forms :
                req' = [req EXCEPT ![r] =
                          IF MissingRequired(formData)
                          THEN Respond([q EXCEPT !.method = "POST", !.form = formData,
                                                 !.error = <<"Missing required fields">>],
                                       400, <<"success:false">>)
                          ELSE [q EXCEPT !.method = "POST", !.form = formData,
                                         !.pc = "findPersonByEmail"]]
    /\ UNCHANGED <<people, opps, crmSort, workload, upsert, faults>>

\* a variant that compares the numbers as written
PhoneExists_exact(currentNumbers, phone) ==
    \E k \in DOMAIN currentNumbers : currentNumbers[k].number = phone

\* currentNumbers.some(p => digits(p.number) === digits(phone))
PhoneExists(currentNumbers, phone) ==
    \E k \in DOMAIN currentNumbers : Digits(currentNumbers[k].number) = Digits(phone)

\* // 1. Find or Create Person: the search, and what follows it
Submit_findPersonByEmail(r) ==
    /\ req[r].kind = "submit" /\ req[r].pc = "findPersonByEmail"
    /\ \E out \in Outcomes :
        /\ Outcome(out)
        /\ LET q == Called(req[r], "POST /people/search emails", 0, out)
               found == PeopleSearchByEmail(q.form.email)
           IN req' = [req EXCEPT ![r] =
                IF out = "net_error" THEN SubmitFailed(q, FetchError)
                ELSE IF out = "ok" /\ found # <<>>
                     THEN [q EXCEPT !.person = found[1],
                                    !.personPhones = people[found[1]].phone_numbers,
                                    !.pc = IF q.form.phone # <<>>
                                              /\ ~PhoneExists(people[found[1]].phone_numbers,
                                                              q.form.phone)
                                           THEN "updatePersonPhone"
                                           ELSE "createCopperOpportunity"]
                     ELSE [q EXCEPT !.pc = "createPerson"]]
    /\ UNCHANGED <<people, opps, crmSort, workload, upsert>>

\* [...currentNumbers, { number: phone, category: 'mobile' }]
newNumbers(currentNumbers, phone) ==
    Append(currentNumbers, [number |-> phone, category |-> "mobile"])

\* a variant in which a failed update is thrown to the handler
updatePersonPhone_throwing(q, out) ==
    IF out = "ok" THEN [q EXCEPT !.pc = "createCopperOpportunity"]
    ELSE SubmitFailed(q, IF out = "net_error" THEN FetchError
                         ELSE <<"Failed to update phone">>)

\* how updatePersonPhone returns to the handler: a rejected fetch is caught
\* and logged, the response is not looked at
updatePersonPhone(q, out) == [q EXCEPT !.pc = "createCopperOpportunity"]

\* updatePersonPhone: the PUT of the extended phone list; no failure surfaces
Submit_updatePersonPhone(r) ==
    /\ req[r].kind = "submit" /\ req[r].pc = "updatePersonPhone"
    /\ \E out \in Outcomes :
        /\ Outcome(out)
        /\ LET q == Called(req[r], "PUT /people/:id", req[r].person, out)
           IN /\ people' = IF out = "ok"
                           THEN [people EXCEPT ![q.person].phone_numbers =
                                    newNumbers(q.personPhones, q.form.phone)]
                           ELSE people
              /\ req' = [req EXCEPT ![r] = updatePersonPhone(q, out)]
    /\ UNCHANGED <<opps, crmSort, workload, upsert>>

\* createPerson
Submit_createPerson(r) ==
    /\ req[r].kind = "submit" /\ req[r].pc = "createPerson"
    /\ \E out \in Outcomes :
        /\ Outcome(out)
        /\ LET q == Called(req[r], "POST /people", 0, out)
           IN IF out = "ok"
              THEN /\ people' = Append(people, PersonPayload(q.form))
                   /\ req' = [req EXCEPT ![r] =
                                [q EXCEPT !.person = Len(people) + 1,
                                          !.pc = "createCopperOpportunity"]]
              ELSE /\ people' = people
                   /\ req' = [req EXCEPT ![r] =
                                SubmitFailed(q, IF out = "net_error" THEN FetchError
                                                ELSE <<"Failed to create person record">>)]
    /\ UNCHANGED <<opps, crmSort, workload, upsert>>

\* the checkout link of a new opportunity
CheckoutLinkOf(id) == <<Origin, "/c/", ToString(id)>>

\* what follows the creation of opportunity `id`: the success response, or
\* first the persistence of the checkout link where that workflow is enabled
AfterCreate(q, id) ==
    IF workload.checkoutLinkEnabled
    THEN [q EXCEPT !.opportunityId = id, !.checkoutLink = CheckoutLinkOf(id),
                   !.pc = "upsertCheckoutDetails_GET"]
    ELSE Respond([q EXCEPT !.opportunityId = id], 200, <<"success:true">>)

\* createCopperOpportunity, and what follows it
Submit_createCopperOpportunity(r) ==
    /\ req[r].kind = "submit" /\ req[r].pc = "createCopperOpportunity"
    /\ \E out \in Outcomes :
        /\ Outcome(out)
        /\ LET q == Called(req[r], "POST /opportunities", 0, out)
               id == Len(opps) + 1
           IN IF out = "ok"
              THEN /\ opps' = Append(opps, Stored(OpportunityPayload(q.form, q.person)))
                   /\ req' = [req EXCEPT ![r] = AfterCreate(q, id)]
              ELSE /\ opps' = opps
                   /\ req' = [req EXCEPT ![r] =
                                SubmitFailed(q, IF out = "net_error" THEN FetchError
                                                ELSE <<"Copper API error: ", "500">>)]
    /\ UNCHANGED <<people, crmSort, workload, upsert>>

\* upsertCheckoutDetails: the read of the current opportunity
upsertCheckoutDetails_GET(r) ==
    /\ req[r].kind = "submit" /\ req[r].pc = "upsertCheckoutDetails_GET"
    /\ \E out \in Outcomes :
        /\ Outcome(out)
        /\ LET q == Called(req[r], "GET /opportunities/:id", req[r].opportunityId,
                           OpportunityAnswer(req[r].opportunityId, out))
               read == out = "ok" /\ OpportunityExists(q.opportunityId)
           IN req' = [req EXCEPT ![r] =
                [q EXCEPT !.pc = "upsertCheckoutDetails_PUT",
                          !.existingDetails =
                              IF read THEN opps[q.opportunityId].details ELSE EmptyText,
                          !.existingCustomFields =
                              IF read THEN opps[q.opportunityId].custom_fields ELSE <<>>]]
    /\ UNCHANGED <<people, opps, crmSort, workload, upsert>>

\* a variant that leaves the checkout state out of the notes
CheckoutPayload_linkOnly(existingDetails, existingCustomFields, checkoutLink, checkoutState) ==
    [details |-> upsertDetailsLines(existingDetails, << <<"Checkout Link", checkoutLink>> >>),
     custom_fields |->
        Append(SelectSeq(existingCustomFields, LAMBDA f : f[1] # FIELD_IDS.paymentLink),
               <<FIELD_IDS.paymentLink, checkoutLink>>)]

\* a variant that also sends the stage of a new submission
CheckoutPayload_withStage(existingDetails, existingCustomFields, checkoutLink, checkoutState) ==
    [pipeline_stage_id |-> COMPLETED_QUIZ_STAGE_ID,
     details |-> upsertDetailsLines(existingDetails,
                    << <<"Checkout Link", checkoutLink>>,
                       <<"Checkout State", checkoutState>> >>)]

\* the PUT payload of upsertCheckoutDetails: custom_fields is set only
\* when there is a link
CheckoutPayload(existingDetails, existingCustomFields, checkoutLink, checkoutState) ==
    LET details == upsertDetailsLines(existingDetails,
                        << <<"Checkout Link", checkoutLink>>,
                           <<"Checkout State", checkoutState>> >>)
        custom_fields ==
            Append(SelectSeq(existingCustomFields, LAMBDA f : f[1] # FIELD_IDS.paymentLink),
                   <<FIELD_IDS.paymentLink, checkoutLink>>)
    IN IF Truthy(checkoutLink)
       THEN [details |-> details, custom_fields |-> custom_fields]
       ELSE [details |-> details]

\* upsertCheckoutDetails: the update of details and custom fields
upsertCheckoutDetails_PUT(r) ==
    /\ req[r].kind = "submit" /\ req[r].pc = "upsertCheckoutDetails_PUT"
    /\ \E out \in Outcomes :
        /\ Outcome(out)
        /\ LET q == Called(req[r], "PUT /opportunities/:id", req[r].opportunityId,
                           OpportunityAnswer(req[r].opportunityId, out))
               payload == CheckoutPayload(q.existingDetails, q.existingCustomFields,
                                          q.checkoutLink, <<"Pending">>)
           IN IF out = "ok" /\ OpportunityExists(q.opportunityId)
              THEN /\ opps' = [opps EXCEPT ![q.opportunityId] = Updated(@, payload)]
                   /\ req' = [req EXCEPT ![r] =
                                IF Truthy(q.checkoutLink)
                                THEN [q EXCEPT !.pc = "upsertCheckoutDetails_PUT_paymentLink"]
                                ELSE Respond(q, 200, <<"success:true">>)]
              ELSE /\ opps' = opps
                   /\ req' = [req EXCEPT ![r] =
                                SubmitFailed(q, UpdateError(q.opportunityId, out))]
    /\ UNCHANGED <<people, crmSort, workload, upsert>>

\* upsertCheckoutDetails: the second update, of the payment link field alone
upsertCheckoutDetails_PUT_paymentLink(r) ==
    /\ req[r].kind = "submit" /\ req[r].pc = "upsertCheckoutDetails_PUT_paymentLink"
    /\ \E out \in Outcomes :
        /\ Outcome(out)
        /\ LET q == Called(req[r], "PUT /opportunities/:id", req[r].opportunityId,
                           OpportunityAnswer(req[r].opportunityId, out))
           IN IF out = "ok" /\ OpportunityExists(q.opportunityId)
              THEN /\ opps' = [opps EXCEPT ![q.opportunityId] =
                                 Updated(@, [custom_fields |->
                                     << <<FIELD_IDS.paymentLink, q.checkoutLink>> >>])]
                   /\ req' = [req EXCEPT ![r] = Respond(q, 200, <<"success:true">>)]
              ELSE /\ opps' = opps
                   /\ req' = [req EXCEPT ![r] =
                                SubmitFailed(q, UpdateError(q.opportunityId, out))]
    /\ UNCHANGED <<people, crmSort, workload, upsert>>

(* ------------------------------------------------------------------ *)
(* The checkout redirect (functions/c/[id].js)                         *)
(* ------------------------------------------------------------------ *)
isOpportunityPaid(opportunity) == opportunity.pipeline_stage_id = PAID_STAGE_ID

\* the value of a custom field slot, '' when the slot is missing
CustomFieldValue(opportunity, fieldId) ==
    LET hits == {k \in DOMAIN opportunity.custom_fields :
                    opportunity.custom_fields[k][1] = fieldId}
    IN IF hits = {} THEN <<>> ELSE opportunity.custom_fields[Min(hits)][2]

\* the value of the first notes line "label: value", '' when there is none
DetailsValue(details, label) ==
    LET hits == {k \in DOMAIN details : LineHasLabel(details[k], label)}
    IN IF hits = {} THEN <<>>
       ELSE SubSeq(details[Min(hits)], 4, Len(details[Min(hits)]))

getOpportunityCheckoutData(opportunity) ==
    [selectedPackage |-> CustomFieldValue(opportunity, FIELD_IDS.selectedPackage),
     customerType |-> CustomFieldValue(opportunity, FIELD_IDS.responderStatus),
     email |-> DetailsValue(opportunity.details, "Email"),
     primaryContactId |-> opportunity.primary_contact_id]

\* a variant that sets every query parameter, empty or not
CheckoutLocation_always(checkoutData, email, opportunityId) ==
    <<"/checkout.html">>
    \o <<"chosenPackage=">> \o checkoutData.selectedPackage
    \o <<"customerType=">> \o checkoutData.customerType
    \o <<"email=">> \o email
    \o <<"opportunityId=", ToString(opportunityId)>>

\* the checkout page's query parameters, the empty ones left out
CheckoutLocation(checkoutData, email, opportunityId) ==
    <<"/checkout.html">>
    \o (IF checkoutData.selectedPackage # <<>>
        THEN <<"chosenPackage=">> \o checkoutData.selectedPackage ELSE <<>>)
    \o (IF checkoutData.customerType # <<>>
        THEN <<"customerType=">> \o checkoutData.customerType ELSE <<>>)
    \o (IF email # <<>> THEN <<"email=">> \o email ELSE <<>>)
    \o <<"opportunityId=", ToString(opportunityId)>>

\* a variant that sends the visitor to the checkout page instead
NotFound_redirected(q) ==
    Respond([q EXCEPT !.location = <<"/checkout.html", "opportunityId=", ToString(q.id)>>],
            302, <<>>)

\* new Response('Not Found', { status: 404 })
NotFound(q) == Respond(q, 404, <<"Not Found">>)

\* a variant that sends an update of the contact
getPersonById_update(q, out) == Called(q, "PUT /people/:id", q.person, out)

\* getPersonById(checkoutData.primaryContactId, env): one read of the contact
getPersonById(q, out) == Called(q, "GET /people/:id", q.person, out)

Redirect_onRequest(r) ==
    /\ CanStart(r)
    /\ \E id \in workload.ids :
        LET q == [IdleRequest EXCEPT !.kind = "redirect", !.after = Answered,
                                     !.method = "GET", !.id = id]
        IN req' = [req EXCEPT ![r] =
                      IF id = 0 THEN NotFound(q)
                      ELSE [q EXCEPT !.pc = "getOpportunityById"]]
    /\ UNCHANGED <<people, opps, crmSort, workload, upsert, faults>>

Redirect_getOpportunityById(r) ==
    /\ req[r].kind = "redirect" /\ req[r].pc = "getOpportunityById"
    /\ \E out \in Outcomes :
        /\ Outcome(out)
        /\ LET q == Called(req[r], "GET /opportunities/:id", req[r].id,
                           OpportunityAnswer(req[r].id, out))
           IN req' = [req EXCEPT ![r] =
                IF ~(out = "ok" /\ OpportunityExists(q.id))
                THEN NotFound(q)
                ELSE IF isOpportunityPaid(opps[q.id])
                THEN Respond([q EXCEPT !.location =
                                <<"/success.html", "applicationId=", ToString(q.id)>>],
                             302, <<>>)
                ELSE LET checkoutData == getOpportunityCheckoutData(opps[q.id])
                     IN IF checkoutData.email = <<>> /\ checkoutData.primaryContactId # 0
                        THEN [q EXCEPT !.pc = "getPersonById",
                                       !.person = checkoutData.primaryContactId,
                                       !.existingCustomFields = opps[q.id].custom_fields,
                                       !.existingDetails = opps[q.id].details]
                        ELSE Respond([q EXCEPT !.location =
                                        CheckoutLocation(checkoutData, checkoutData.email, q.id)],
                                     302, <<>>)]
    /\ UNCHANGED <<people, opps, crmSort, workload, upsert>>

Redirect_getPersonById(r) ==
    /\ req[r].kind = "redirect" /\ req[r].pc = "getPersonById"
    /\ \E out \in Outcomes :
        /\ Outcome(out)
        /\ LET q == getPersonById(req[r], out)
               email == IF out = "ok" /\ q.person \in DOMAIN people
                           /\ people[q.person].emails # <<>>
                        THEN <<people[q.person].emails[1].email>> ELSE <<>>
               checkoutData ==
                   [selectedPackage |-> CustomFieldValue(
                        [custom_fields |-> q.existingCustomFields], FIELD_IDS.selectedPackage),
                    customerType |-> CustomFieldValue(
                        [custom_fields |-> q.existingCustomFields], FIELD_IDS.responderStatus)]
           IN req' = [req EXCEPT ![r] =
                        Respond([q EXCEPT !.location = CheckoutLocation(checkoutData, email, q.id)],
                                302, <<>>)]
    /\ UNCHANGED <<people, opps, crmSort, workload, upsert>>

(* ------------------------------------------------------------------ *)
(* Specification                                                       *)
(* ------------------------------------------------------------------ *)
\* the CRM after earlier submissions: Ann (two open opportunities) and Bob
\* (one open opportunity, and one that staff closed as lost)
InitialCRM ==
    /\ people = << PersonPayload(FormAnn), PersonPayload(FormBob) >>
    /\ opps = << Stored(OpportunityPayload(FormAnn, 1)),
                 Stored(OpportunityPayload([FormAnn EXCEPT !.selectedPackage = "will"], 1)),
                 Stored(OpportunityPayload(FormBob, 2)),
                 [Stored(OpportunityPayload(FormBob, 2)) EXCEPT !.status = "Lost",
                                                                !.details = EmptyText] >>
    /\ crmSort \in {"oldest_first", "newest_first"}

Init ==
    /\ InitialCRM
    /\ workload \in Workloads
    /\ faults = 0
    /\ req = [r \in Requests |-> IdleRequest]
    /\ upsert = [details |-> EmptyText, updates |-> <<>>, results |-> <<>>]

Next ==
    \E r \in Requests :
        \/ Webhook_onRequest(r)
        \/ Webhook_retrieveCustomer(r)
        \/ Webhook_findPersonByEmail(r)
        \/ Webhook_findOpenOpportunityByEmail(r)
        \/ Webhook_findPersonByPhone(r)
        \/ Webhook_findOpenOpportunityByPhone(r)
        \/ markOpportunityPaid_GET(r)
        \/ markOpportunityPaid_PUT(r)
        \/ Submit_onRequest(r)
        \/ Submit_findPersonByEmail(r)
        \/ Submit_updatePersonPhone(r)
        \/ Submit_createPerson(r)
        \/ Submit_createCopperOpportunity(r)
        \/ upsertCheckoutDetails_GET(r)
        \/ upsertCheckoutDetails_PUT(r)
        \/ upsertCheckoutDetails_PUT_paymentLink(r)
        \/ Redirect_onRequest(r)
        \/ Redirect_getOpportunityById(r)
        \/ Redirect_getPersonById(r)

Spec == Init /\ [][Next]_vars

(* ------------------------------------------------------------------ *)
(* The submission handler on its own, for every package code           *)
(* ------------------------------------------------------------------ *)
\* the codes of the form, no code, a code the form does not have, and a
\* code that names a member of Object.prototype
PackageCodes ==
    {"", "will", "trust-individual", "trust-couple", "trust-update", "estate", "constructor"}

FormPackage(code, phone) == [FormCat EXCEPT !.selectedPackage = code, !.phone = phone]

SubmitInit ==
    /\ InitialCRM
    /\ workload \in { Workload({}, {FormPackage(code, PhoneB), FormPackage(code, PhoneC)},
                                {}, FALSE) : code \in PackageCodes }
    /\ faults = 0
    /\ req = [r \in Requests |-> IdleRequest]
    /\ upsert = [details |-> EmptyText, updates |-> <<>>, results |-> <<>>]

SubmitNext ==
    \E r \in Requests :
        \/ Submit_onRequest(r)
        \/ Submit_findPersonByEmail(r)
        \/ Submit_updatePersonPhone(r)
        \/ Submit_createPerson(r)
        \/ Submit_createCopperOpportunity(r)

SpecSubmit == SubmitInit /\ [][SubmitNext]_vars

(* ------------------------------------------------------------------ *)
(* upsertDetailsLines on its own                                       *)
(* ------------------------------------------------------------------ *)
\* number of lines of a notes text
MaxLines == 3
\* number of times the same updates are applied in a row
MaxCalls == 2

\* the lines the notes texts are made of: a blank line, free text, and
\* labelled lines, one label with two values
UpsertLines ==
    { <<>>, <<"Submitted via prepareheroes.org">>,
      Line("Checkout Link", <<"old">>),
      Line("Checkout State", <<"Pending">>), Line("Checkout State", <<"Paid">>) }

Texts == {EmptyText} \cup UNION { [1..n -> UpsertLines] : n \in 1..MaxLines }

\* undefined, '', a plain value, and a value holding the pattern "$&"
UpsertValues == { Undefined, <<>>, <<"Paid">>, <<"$&">> }

\* { 'Checkout Link': v1, 'Checkout State': v2 } as upsertCheckoutDetails
\* passes it, and { 'Checkout State': v } as markOpportunityPaid does
UpdateMaps ==
    { << <<"Checkout Link", v1>>, <<"Checkout State", v2>> >> : v1, v2 \in UpsertValues }
    \cup { << <<label, v>> >> : label \in {"Checkout Link", "Checkout State"},
                                v \in UpsertValues }

UpsertInit ==
    /\ people = <<>> /\ opps = <<>> /\ crmSort = "oldest_first"
    /\ workload = Workload({}, {}, {}, FALSE)
    /\ faults = 0
    /\ req = [r \in Requests |-> IdleRequest]
    /\ upsert \in [details : Texts, updates : UpdateMaps, results : {<<>>}]

\* the text the next call is given: the input, then what the call before returned
UpsertArgument ==
    IF upsert.results = <<>> THEN upsert.details ELSE upsert.results[Len(upsert.results)]

\* one call of upsertDetailsLines(details, updates)
Upsert_call ==
    /\ Len(upsert.results) < MaxCalls
    /\ upsert' = [upsert EXCEPT !.results =
                     Append(@, upsertDetailsLines(UpsertArgument, upsert.updates))]
    /\ UNCHANGED <<people, opps, crmSort, workload, faults, req>>

UpsertNext == Upsert_call

SpecUpsert == UpsertInit /\ [][UpsertNext]_vars

(* ------------------------------------------------------------------ *)
(* Vocabulary of the properties                                        *)
(* ------------------------------------------------------------------ *)
Range(f) == {f[k] : k \in DOMAIN f}

\* q handles a verified delivery of a payment event
IsDelivery(q) == q.kind = "webhook" /\ "verified" \in Range(q.phases)

\* one of q's remote calls failed
Faulted(q) == \E k \in DOMAIN q.calls : q.calls[k].out # "ok"

\* q has been answered with success after updating the opportunity it resolved
Applied(q) == q.pc = "done" /\ q.status = 200 /\ "applied" \in Range(q.phases)

Count(text, line) == Cardinality({k \in DOMAIN text : text[k] = line})

\* every payment line of event e stands exactly once in the notes
EachLineOnce(details, e) ==
    \A k \in DOMAIN PaymentLines(PaymentInfo(e)) :
        Count(details, PaymentLines(PaymentInfo(e))[k]) = 1

\* q has sent an update of opportunity o
Updates(q, o) ==
    \E k \in DOMAIN q.calls : q.calls[k].op = "PUT /opportunities/:id" /\ q.calls[k].id = o

\* every update of opportunity o by a request outside R was sent by a
\* request that had been answered before the requests of R arrived
OnlyUpdatedBy(R, o) ==
    \A q \in Requests \ R : Updates(req[q], o) => \A r \in R : q \in req[r].after

\* r1 and r2 were handled at the same time
Overlap(r1, r2) == r1 # r2 /\ r1 \notin req[r2].after /\ r2 \notin req[r1].after

(* ------------------------------------------------------------------ *)
(* Redelivery                                                          *)
(* ------------------------------------------------------------------ *)
\* the step that answers delivery r2 of the checkout event that delivery r1
\* applied to the same opportunity before r2 arrived, no other
\* request having updated it since r1 arrived
RedeliveryAnswered(r1, r2) ==
    /\ r1 \in req[r2].after
    /\ req[r2].pc # "done" /\ req'[r2].pc = "done"
    /\ IsDelivery(req[r1]) /\ IsDelivery(req[r2])
    /\ req[r1].event = req[r2].event /\ req[r2].event.type = Checkout
    /\ Applied(req[r1])
    /\ req[r1].opportunityId = req'[r2].opportunityId
    /\ ~Faulted(req'[r2])
    /\ OnlyUpdatedBy({r1, r2}, req[r1].opportunityId)

\* C1: when a checkout-completed event that resolves to opportunity o is
\* delivered again after its first delivery succeeded (no call of the second
\* delivery fails, no other request updates o meanwhile), the second
\* delivery is answered with success and leaves o at the paid stage with
\* every payment line of the event exactly once in its notes.
C1_SequentialRedelivery ==
    [][\A r1, r2 \in Requests :
          RedeliveryAnswered(r1, r2) =>
              LET o == req[r1].opportunityId
              IN /\ req[r1].status = 200 /\ req'[r2].status = 200
                 /\ opps'[o].pipeline_stage_id = PAID_STAGE_ID
                 /\ EachLineOnce(opps'[o].details, req[r2].event)]_vars

\* the step that answers the later of two deliveries of one checkout event
\* that were handled at the same time and resolved the same opportunity,
\* no other request having updated it since they arrived
ConcurrentAnswered(r1, r2) ==
    /\ Overlap(r1, r2)
    /\ req[r1].pc = "done"
    /\ req[r2].pc # "done" /\ req'[r2].pc = "done"
    /\ IsDelivery(req[r1]) /\ IsDelivery(req[r2])
    /\ req[r1].event = req[r2].event /\ req[r2].event.type = Checkout
    /\ req[r1].opportunityId = req'[r2].opportunityId
    /\ req[r1].opportunityId # 0
    /\ ~Faulted(req[r1]) /\ ~Faulted(req'[r2])
    /\ OnlyUpdatedBy({r1, r2}, req[r1].opportunityId)

\* C2: when two deliveries of one checkout-completed event are handled
\* concurrently and resolve the same opportunity o (none of their calls
\* fails, no other request updates o meanwhile), then in every interleaving
\* of their reads and updates both are answered with success and o ends at
\* the paid stage with every payment line of the event exactly once in its
\* notes.
C2_ConcurrentRedelivery ==
    [][\A r1, r2 \in Requests :
          ConcurrentAnswered(r1, r2) =>
              LET o == req[r1].opportunityId
              IN /\ req[r1].status = 200 /\ req'[r2].status = 200
                 /\ opps'[o].pipeline_stage_id = PAID_STAGE_ID
                 /\ EachLineOnce(opps'[o].details, req[r2].event)]_vars

(* ------------------------------------------------------------------ *)
(* Resolution                                                          *)
(* ------------------------------------------------------------------ *)
\* the reference id the event carries (0: none)
ReferenceId(event) ==
    IF event.client_reference_id # 0 THEN event.client_reference_id
    ELSE event.metadata_opportunity_id

HasCall(q, ops) == \E k \in DOMAIN q.calls : q.calls[k].op \in ops

PeopleSearches == {"POST /people/search emails", "POST /people/search phone_number"}
Searches == PeopleSearches \cup {"POST /opportunities/search"}
OpportunityCalls == {"GET /opportunities/:id", "PUT /opportunities/:id"}
Writes == {"PUT /opportunities/:id", "PUT /people/:id", "POST /people", "POST /opportunities"}

\* C3: when an event without direct reference id is delivered twice and
\* the first delivery marked opportunity o paid through the email or phone
\* fallback, a later delivery of the event never marks another opportunity.
C3_RedeliverySameOpportunity ==
    \A r1, r2 \in Requests :
        /\ r1 < r2
        /\ IsDelivery(req[r1]) /\ IsDelivery(req[r2])
        /\ req[r1].event = req[r2].event
        /\ ReferenceId(req[r1].event) = 0
        /\ Applied(req[r1]) /\ Applied(req[r2])
        => req[r2].opportunityId = req[r1].opportunityId

\* C4: handling a verified payment event that carries a direct reference id
\* issues no CRM search call, and every opportunity read or update it
\* issues is on the opportunity with that id.
C4_DirectIdNoSearch ==
    \A r \in Requests :
        IsDelivery(req[r]) /\ ReferenceId(req[r].event) # 0
        => \A k \in DOMAIN req[r].calls :
              /\ req[r].calls[k].op \notin Searches
              /\ req[r].calls[k].op \in OpportunityCalls
                    => req[r].calls[k].id = ReferenceId(req[r].event)

\* C4 happens: an invoice event and a checkout event with a reference id
\* have been applied, each after reading and updating the opportunity
C4_Witness ==
    \E r \in Requests :
        /\ IsDelivery(req[r]) /\ ReferenceId(req[r].event) # 0
        /\ Applied(req[r])
        /\ req[r].event.type = InvoicePaid
        /\ HasCall(req[r], {"GET /opportunities/:id"})
        /\ HasCall(req[r], {"PUT /opportunities/:id"})
        /\ opps[ReferenceId(req[r].event)].pipeline_stage_id = PAID_STAGE_ID

\* the contacts holding this email
ContactsWithEmail(email) ==
    {c \in DOMAIN people : \E k \in DOMAIN people[c].emails : people[c].emails[k].email = email}

\* the open opportunities of contact c in the fixed pipeline
OpenOpportunities(c) ==
    {i \in DOMAIN opps : /\ opps[i].primary_contact_id = c
                         /\ opps[i].pipeline_id = ESTATE_PLANNING_PIPELINE_ID
                         /\ opps[i].status = "Open"}

\* the email a checkout session carries
SessionEmail(event) ==
    IF event.customer_details_email # "" THEN event.customer_details_email
    ELSE event.customer_email

\* delivery r is of a checkout event without reference id whose email
\* matches exactly contact c, who has exactly the open opportunity o
SingleOpenMatch(r, c, o) ==
    /\ IsDelivery(req[r]) /\ req[r].event.type = Checkout
    /\ ReferenceId(req[r].event) = 0
    /\ ContactsWithEmail(SessionEmail(req[r].event)) = {c}
    /\ OpenOpportunities(c) = {o}

\* C5: a verified checkout-completed event without direct reference id
\* whose email matches a contact with exactly one open opportunity in the
\* pipeline is answered with success (when none of its calls fails), and the
\* step that answers it leaves that opportunity at the paid stage and every
\* other opportunity as it was.
C5_EmailFallbackMarksPaid ==
    [][\A r \in Requests : \A c \in DOMAIN people : \A o \in DOMAIN opps :
          /\ SingleOpenMatch(r, c, o)
          /\ req[r].pc # "done" /\ req'[r].pc = "done"
          /\ ~Faulted(req'[r])
          => /\ req'[r].status = 200 /\ req'[r].body = Received
             /\ opps'[o].pipeline_stage_id = PAID_STAGE_ID
             /\ \A i \in DOMAIN opps \ {o} : opps'[i] = opps[i]]_vars

\* C5 happens: such an event has been applied through the email fallback to
\* the one open opportunity of a contact who also has a closed one
C5_Witness ==
    \E r \in Requests : \E c \in DOMAIN people : \E o \in DOMAIN opps :
        /\ SingleOpenMatch(r, c, o)
        /\ Applied(req[r]) /\ ~Faulted(req[r])
        /\ req[r].matchMethod = "email_fallback"
        /\ req[r].opportunityId = o
        /\ opps[o].pipeline_stage_id = PAID_STAGE_ID
        /\ \E i \in DOMAIN opps \ {o} :
              opps[i].primary_contact_id = c /\ opps[i].status # "Open"
                  /\ opps[i].pipeline_stage_id # PAID_STAGE_ID

\* the emails and the phones an event can be looked up by
EventEmails(event) ==
    {event.customer_details_email, event.customer_email, event.stripe_customer_email} \ {""}
EventPhones(event) ==
    {event.customer_details_phone, event.customer_phone, event.stripe_customer_phone} \ {<<>>}

\* the contacts holding a number with the digits of this phone
ContactsWithPhone(phone) ==
    {c \in DOMAIN people :
        \E k \in DOMAIN people[c].phone_numbers :
            Digits(people[c].phone_numbers[k].number) = Digits(phone)}

\* no contact matches an email or a phone of the event
NobodyMatches(event) ==
    /\ \A e \in EventEmails(event) : ContactsWithEmail(e) = {}
    /\ \A p \in EventPhones(event) : ContactsWithPhone(p) = {}

\* C6: a verified payment event without direct reference id that matches
\* no contact by email and none by phone is answered with the success
\* acknowledgement {received:true} (when no call is rejected), and handling
\* it issues no call that creates or updates an opportunity or a contact.
C6_NoMatchNoMutation ==
    \A r \in Requests :
        /\ IsDelivery(req[r]) /\ ReferenceId(req[r].event) = 0
        /\ req[r].event.type \in {Checkout, InvoicePaid}
        /\ NobodyMatches(req[r].event)
        => /\ ~HasCall(req[r], Writes \cup {"GET /opportunities/:id"})
           /\ req[r].pc = "done" /\ ~Faulted(req[r])
                 => req[r].status = 200 /\ req[r].body = Received

\* C6 happens: an event nobody matches has been acknowledged after both the
\* search by email and the search by phone came back empty
C6_Witness ==
    \E r \in Requests :
        /\ IsDelivery(req[r]) /\ ReferenceId(req[r].event) = 0
        /\ req[r].event.type = Checkout
        /\ NobodyMatches(req[r].event)
        /\ req[r].pc = "done" /\ req[r].status = 200 /\ ~Faulted(req[r])
        /\ HasCall(req[r], {"POST /people/search emails"})
        /\ HasCall(req[r], {"POST /people/search phone_number"})

(* ------------------------------------------------------------------ *)
(* Verification                                                        *)
(* ------------------------------------------------------------------ *)
\* C7: a webhook request whose signature does not verify is answered with a
\* 400-class status by a step that leaves the CRM unchanged, and no CRM
\* call is ever issued for it.
C7_BadSignatureRejected ==
    [][\A r \in Requests :
          req'[r].kind = "webhook" /\ req'[r].signature # "valid"
          => /\ req'[r].pc = "done"
             /\ req'[r].status \in 400..499
             /\ req'[r].calls = <<>>
             /\ req'[r] # req[r] => people' = people /\ opps' = opps]_vars

\* C7 happens: a POST with a signature that does not match has been
\* answered 400 while a verified delivery is being handled
C7_Witness ==
    \E r, d \in Requests :
        /\ req[r].kind = "webhook" /\ req[r].method = "POST"
        /\ req[r].signature = "no_match"
        /\ req[r].status = 400 /\ req[r].calls = <<>>
        /\ IsDelivery(req[d]) /\ req[d].calls # <<>>

(* ------------------------------------------------------------------ *)
(* Stage                                                               *)
(* ------------------------------------------------------------------ *)
\* C8: under every interleaving of submissions, checkout-link persistence,
\* redirects and payment applies, an opportunity at the paid stage is at
\* the paid stage after every step.
C8_PaidIsTerminal ==
    [][\A i \in DOMAIN opps :
          opps[i].pipeline_stage_id = PAID_STAGE_ID
          => i \in DOMAIN opps' /\ opps'[i].pipeline_stage_id = PAID_STAGE_ID]_vars

\* C8 happens: the checkout-link persistence of a submission has written the
\* notes of its opportunity after a payment put it at the paid stage
C8_Witness ==
    \E s, d \in Requests :
        /\ req[s].kind = "submit" /\ req[s].pc = "done" /\ req[s].status = 200
        /\ Applied(req[d]) /\ req[d].opportunityId = req[s].opportunityId
        /\ Updates(req[s], req[s].opportunityId)
        /\ opps[req[s].opportunityId].pipeline_stage_id = PAID_STAGE_ID
        /\ Count(opps[req[s].opportunityId].details, Line("Checkout State", <<"Pending">>)) = 1

(* ------------------------------------------------------------------ *)
(* The path of a webhook request                                       *)
(* ------------------------------------------------------------------ *)
IsPrefix(p, path) == Len(p) <= Len(path) /\ SubSeq(path, 1, Len(p)) = p

SpecPaths ==
    { <<"received", "verified", "resolved", "applied">>,
      <<"received", "rejected">>,
      <<"received", "verified", "unresolved">> }

\* the paths beside them: a failed CRM call (before or after resolution),
\* and an event type that is acknowledged without resolution
OtherPaths ==
    { <<"received", "verified", "resolved", "failed">>,
      <<"received", "verified", "failed">>,
      <<"received", "verified">> }

\* C9 as stated: every answered POST to the webhook went received, verified,
\* resolved, applied; or received, rejected; or received, verified,
\* unresolved.
C9_ThreePaths ==
    \A r \in Requests :
        req[r].kind = "webhook" /\ req[r].method = "POST" /\ req[r].pc = "done"
        => req[r].phases \in SpecPaths

\* C9, as the handler behaves: the phases of a POST to the webhook always
\* are the beginning of one of the three paths, of a path that ends in a
\* failed CRM call, or of the path of an event type that is acknowledged
\* unresolved; an answered one has gone through a whole one.  An opportunity
\* update is issued only after verified and resolved, resolved means an id
\* was found and unresolved that none was, and applied never follows
\* rejected or unresolved.
C9_Paths ==
    \A r \in Requests :
        req[r].kind = "webhook" /\ req[r].method = "POST"
        => LET q == req[r]
           IN /\ \E path \in SpecPaths \cup OtherPaths : IsPrefix(q.phases, path)
              /\ q.pc = "done" => q.phases \in SpecPaths \cup OtherPaths
              /\ q.phases = <<"received", "verified">> /\ q.pc = "done"
                    => q.event.type \notin {Checkout, InvoicePaid}
              /\ "failed" \in Range(q.phases) => Faulted(q)
              /\ HasCall(q, {"PUT /opportunities/:id"})
                    => {"verified", "resolved"} \subseteq Range(q.phases)
              /\ "resolved" \in Range(q.phases) => q.opportunityId # 0
              /\ "unresolved" \in Range(q.phases) => q.opportunityId = 0
              /\ "applied" \in Range(q.phases)
                    => {"rejected", "unresolved"} \cap Range(q.phases) = {}

\* C9 happens: one event was applied, a request was rejected, and a delivery
\* failed after it had resolved its opportunity
C9_Witness ==
    \E a, b, c \in Requests :
        /\ req[a].phases = <<"received", "verified", "resolved", "applied">>
        /\ req[b].phases = <<"received", "rejected">>
        /\ req[c].phases = <<"received", "verified", "resolved", "failed">>
        /\ req[c].pc = "done" /\ req[c].status = 500

(* ------------------------------------------------------------------ *)
(* The order of the waterfall                                          *)
(* ------------------------------------------------------------------ *)
\* the positions of the calls `op` in q's call log
CallsAt(q, op) == {k \in DOMAIN q.calls : q.calls[k].op = op}

\* C10: the contact search by email is issued only for an event without
\* direct reference id; the contact search by phone is issued only for an
\* event without direct reference id, after the email step, and only when
\* the email step produced no opportunity id.
C10_WaterfallOrder ==
    \A r \in Requests :
        req[r].kind = "webhook"
        => LET q == req[r]
           IN /\ HasCall(q, PeopleSearches) => ReferenceId(q.event) = 0
              /\ HasCall(q, {"POST /people/search phone_number"})
                    => /\ q.matchMethod # "email_fallback"
                       /\ \A k \in CallsAt(q, "POST /people/search emails") :
                          \A j \in CallsAt(q, "POST /people/search phone_number") : k < j
              /\ Cardinality(CallsAt(q, "POST /people/search emails")) <= 1
              /\ Cardinality(CallsAt(q, "POST /people/search phone_number")) <= 1

\* C10 happens: an event was resolved by phone after its email matched
\* nobody, and the phone was searched after the email
C10_Witness ==
    \E r \in Requests :
        /\ Applied(req[r]) /\ req[r].matchMethod = "phone_fallback"
        /\ CallsAt(req[r], "POST /people/search emails") = {1}
        /\ CallsAt(req[r], "POST /people/search phone_number") = {2}

(* ------------------------------------------------------------------ *)
(* Failing CRM calls                                                   *)
(* ------------------------------------------------------------------ *)
\* the calls that go to the CRM, the best-effort phone update aside
CrmCalls ==
    Searches \cup OpportunityCalls \cup {"POST /people", "POST /opportunities", "GET /people/:id"}

\* one of q's CRM calls (the phone update aside) failed
CrmCallFailed(q) ==
    \E k \in DOMAIN q.calls : q.calls[k].op \in CrmCalls /\ q.calls[k].out # "ok"

\* C11: a webhook delivery or a submission one of whose CRM calls failed
\* (non-2xx answer or rejected fetch; the best-effort phone update aside) is
\* answered with an error status, never with success.
C11_FailedCallIsError ==
    \A r \in Requests :
        /\ req[r].kind \in {"webhook", "submit"}
        /\ req[r].pc = "done"
        /\ CrmCallFailed(req[r])
        => req[r].status >= 400

\* the last call the request made
LastCall(q) == q.calls[Len(q.calls)]

\* the apply step's update of q was answered with a non-2xx status
UpdateRefused(q) ==
    /\ q.kind = "webhook" /\ q.pc = "done" /\ q.calls # <<>>
    /\ LastCall(q).op = "PUT /opportunities/:id"
    /\ LastCall(q).out = "http_error"

\* C12: when the apply step's PUT is answered non-2xx, markOpportunityPaid
\* fails with an error that carries the HTTP status and the webhook answers
\* with a 500-class status, not {received:true}; {received:true} is the answer
\* only of an event that was applied, was unresolved, or is of a type the
\* handler does not handle.
C12_RefusedUpdateIsError ==
    \A r \in Requests :
        /\ UpdateRefused(req[r]) =>
              /\ req[r].status >= 500 /\ req[r].status < 600
              /\ req[r].body # Received
              /\ "applied" \notin Range(req[r].phases)
              /\ Len(req[r].error) = 2
              /\ req[r].error[1] = "Copper update failed: "
              /\ req[r].error[2] \in {"404", "500"}
        /\ (req[r].kind = "webhook" /\ req[r].pc = "done" /\ req[r].body = Received) =>
              \/ "applied" \in Range(req[r].phases)
              \/ "unresolved" \in Range(req[r].phases)
              \/ req[r].event.type \notin {Checkout, InvoicePaid}

\* an event whose update the CRM refused has been answered
C12_Witness ==
    \E r \in Requests : UpdateRefused(req[r]) /\ req[r].status = 500

(* ------------------------------------------------------------------ *)
(* The notes of an opportunity                                         *)
(* ------------------------------------------------------------------ *)
\* the lines of a text; '' has none
Lines(text) == IF text = EmptyText THEN <<>> ELSE text

\* the labels upsertDetailsLines is called with
UpsertedLabels == {"Checkout Link", "Checkout State"}

\* the lines no upsert may replace
OtherLines(text) ==
    SelectSeq(Lines(text), LAMBDA l : \A label \in UpsertedLabels : ~LineHasLabel(l, label))

\* a is b with some elements left out
RECURSIVE IsSubsequence(_, _)
IsSubsequence(a, b) ==
    IF a = <<>> THEN TRUE
    ELSE IF b = <<>> THEN FALSE
    ELSE IF Head(a) = Head(b) THEN IsSubsequence(Tail(a), Tail(b))
    ELSE IsSubsequence(a, Tail(b))

\* nothing but r has touched the CRM since r arrived
Alone(r) ==
    \A q \in Requests \ {r} : req[q].pc = "idle" \/ (req[q].pc = "done" /\ q \in req[r].after)

\* C13: after a successful markOpportunityPaid or upsertCheckoutDetails every
\* line the notes held in the CRM before the call, a replaced upserted-label
\* line aside, is still there and in the same relative order, whatever the
\* preliminary read returned.
C13_NotesKept ==
    [][\A r \in Requests :
          /\ Alone(r)
          /\ req[r].pc \in {"markOpportunityPaid_PUT", "upsertCheckoutDetails_PUT"}
          /\ req'[r].pc # req[r].pc
          /\ LastCall(req'[r]).out = "ok"
          => IsSubsequence(OtherLines(opps[req[r].opportunityId].details),
                           Lines(opps'[req[r].opportunityId].details))]_vars

\* the labels the handlers write into the notes
ManagedLabels ==
    {"Checkout Link", "Checkout State", "Stripe Invoice ID", "Stripe Invoice URL",
     "Stripe Session ID", "Stripe Payment Intent"}

\* the lines of the text that begin `label:`
LabelLines(text, label) == {k \in DOMAIN text : LineHasLabel(text[k], label)}

\* C14: in every reachable state none of the labels Checkout Link, Checkout
\* State, Stripe Invoice ID, Stripe Invoice URL, Stripe Session ID and Stripe
\* Payment Intent begins more than one line of an opportunity's notes, also
\* after different events were applied to the same opportunity.
C14_OneLinePerLabel ==
    \A o \in DOMAIN opps : \A label \in ManagedLabels :
        Cardinality(LabelLines(opps[o].details, label)) <= 1

(* ------------------------------------------------------------------ *)
(* upsertDetailsLines: its algebra                                     *)
(* ------------------------------------------------------------------ *)
\* C15: the upsert is idempotent: for every notes text t and update map u,
\* upsert(upsert(t, u), u) = upsert(t, u).
C15_UpsertIdempotent ==
    Len(upsert.results) = 2 => upsert.results[2] = upsert.results[1]

\* the first line of T that begins `label:`, 0 when there is none
FirstHit(T, label) == IF LabelLines(T, label) = {} THEN 0 ELSE Min(LabelLines(T, label))

\* the entries of u that carry a value
Present(u) == {e \in DOMAIN u : u[e][2] # Undefined}

\* the entries of u that carry a value and whose label begins no line of T
Unmatched(T, u) ==
    SelectSeq(u, LAMBDA e : e[2] # Undefined /\ LabelLines(T, e[1]) = {})

\* C16: upsert(t, u) changes only lines that begin `Label:` for a label
\* present in u: every other line of t is in the result unchanged and in the
\* same order, the first line of a matched label is replaced in place, and a
\* label that matches no line is appended as a new last line.
C16_UpsertFrame ==
    Len(upsert.results) >= 1 =>
        LET T == Lines(upsert.details)
            O == Lines(upsert.results[1])
            u == upsert.updates
            new == Unmatched(T, u)
        IN /\ Len(O) = Len(T) + Len(new)
           /\ \A k \in 1..Len(T) :
                IF \E e \in Present(u) : FirstHit(T, u[e][1]) = k
                THEN \A e \in Present(u) :
                        FirstHit(T, u[e][1]) = k => LineHasLabel(O[k], u[e][1])
                ELSE O[k] = T[k]
           /\ \A j \in 1..Len(new) : O[Len(T) + j] = Line(new[j][1], new[j][2])

\* one call has returned for a text with free text, two lines of a label
\* that is updated, and no line of the other label that is updated
C16_Witness ==
    /\ Len(upsert.results) >= 1
    /\ Cardinality(LabelLines(upsert.details, "Checkout State")) >= 2
    /\ LabelLines(upsert.details, "Checkout Link") = {}
    /\ <<"Submitted via prepareheroes.org">> \in Range(upsert.details)
    /\ Present(upsert.updates) = {1, 2}

(* ------------------------------------------------------------------ *)
(* The checkout redirect                                               *)
(* ------------------------------------------------------------------ *)
\* a query parameter, present when its value is not empty
Param(name, value) == IF value = <<>> THEN <<>> ELSE <<name>> \o value

\* the checkout page with the parameters that have a value
CheckoutPage(package, customerType, email, id) ==
    <<"/checkout.html">> \o Param("chosenPackage=", package)
        \o Param("customerType=", customerType) \o Param("email=", email)
        \o <<"opportunityId=", ToString(id)>>

SuccessPage(id) == <<"/success.html", "applicationId=", ToString(id)>>

\* the request is a redirect that has been answered with the location
RedirectedTo(q, location) == q.pc = "done" /\ q.status = 302 /\ q.location = location

\* this step is r's read of an opportunity, and the CRM returned it
ReadsOpportunity(r) ==
    /\ req[r].kind = "redirect" /\ req[r].pc = "getOpportunityById"
    /\ req'[r].pc # "getOpportunityById"
    /\ LastCall(req'[r]).out = "ok"

\* this step is r's read of the contact of the opportunity it has read
ReadsContact(r) ==
    /\ req[r].kind = "redirect" /\ req[r].pc = "getPersonById"
    /\ req'[r].pc # "getPersonById"

\* C17 as stated: every redirect to the checkout page carries the selected
\* package, the customer type, the email and the opportunity id as query
\* parameters.
C17_AllParameters ==
    \A r \in Requests :
        (req[r].kind = "redirect" /\ req[r].pc = "done" /\ req[r].status = 302
         /\ req[r].location[1] = "/checkout.html")
        => {"chosenPackage=", "customerType=", "email=", "opportunityId="}
               \subseteq Range(req[r].location)

\* C17: for every opportunity the resolver could read it answers 302: to the
\* success page with the opportunity id when the stage is the paid stage, and
\* otherwise to the checkout page with the opportunity id and with the
\* selected package, the customer type and the email (from the notes, else
\* the first email of the linked contact) each as a query parameter when it
\* is not empty.
C17_Redirects ==
    [][\A r \in Requests :
          /\ ReadsOpportunity(r) =>
                LET o == opps[req[r].id]
                    package == CustomFieldValue(o, FIELD_IDS.selectedPackage)
                    customerType == CustomFieldValue(o, FIELD_IDS.responderStatus)
                    email == DetailsValue(o.details, "Email")
                IN IF o.pipeline_stage_id = PAID_STAGE_ID
                   THEN RedirectedTo(req'[r], SuccessPage(req[r].id))
                   ELSE IF email # <<>> \/ o.primary_contact_id = 0
                   THEN RedirectedTo(req'[r],
                                     CheckoutPage(package, customerType, email, req[r].id))
                   ELSE /\ req'[r].pc = "getPersonById"
                        /\ req'[r].existingCustomFields = o.custom_fields
          /\ ReadsContact(r) =>
                LET o == [custom_fields |-> req[r].existingCustomFields]
                    package == CustomFieldValue(o, FIELD_IDS.selectedPackage)
                    customerType == CustomFieldValue(o, FIELD_IDS.responderStatus)
                    contact == req[r].person
                    email == IF LastCall(req'[r]).out = "ok" /\ contact \in DOMAIN people
                                /\ people[contact].emails # <<>>
                             THEN <<people[contact].emails[1].email>> ELSE <<>>
                IN RedirectedTo(req'[r],
                                CheckoutPage(package, customerType, email, req[r].id))]_vars

\* a paid opportunity was sent to the success page, and an unpaid one whose
\* notes hold no email to the checkout page with the email of its contact
C17_Witness ==
    /\ \E r \in Requests : req[r].kind = "redirect" /\ RedirectedTo(req[r], SuccessPage(1))
    /\ \E r \in Requests :
          /\ req[r].kind = "redirect" /\ req[r].pc = "done" /\ req[r].status = 302
          /\ req[r].id = 4 /\ Len(req[r].calls) = 2
          /\ req[r].location = <<"/checkout.html", "chosenPackage=", "estate",
                                  "email=", "bob@x", "opportunityId=", "4">>

\* the resolver's read of the opportunity was answered with a non-2xx status
OpportunityUnread(q) == q.calls # <<>> /\ q.calls[1].out = "http_error"

\* C18: the resolver answers 404 when the id path parameter is absent or the
\* read of the opportunity is answered non-2xx; it then sends no redirect and
\* makes no further CRM call.
C18_NotFound ==
    \A r \in Requests :
        (req[r].kind = "redirect" /\ (req[r].id = 0 \/ OpportunityUnread(req[r])))
        => /\ req[r].pc = "done"
           /\ req[r].status = 404
           /\ req[r].location = <<>>
           /\ Len(req[r].calls) = IF req[r].id = 0 THEN 0 ELSE 1

\* one request came without id and one asked for an opportunity the CRM
\* does not have
C18_Witness ==
    /\ \E r \in Requests : req[r].kind = "redirect" /\ req[r].id = 0 /\ req[r].status = 404
    /\ \E r \in Requests :
          req[r].kind = "redirect" /\ OpportunityUnread(req[r]) /\ req[r].status = 404

\* the calls that read a record
Reads == {"GET /opportunities/:id", "GET /people/:id"}

\* this step is one of a redirect request
RedirectStep(r) == req'[r] # req[r] /\ req'[r].kind = "redirect"

\* C19: a resolver request never mutates state: it issues only read calls,
\* the read of the opportunity and at most one read of a contact, and every
\* contact and opportunity in the CRM is after each of its steps what it was
\* before.
C19_ResolverReadsOnly ==
    [][\A r \in Requests :
          RedirectStep(r) =>
              /\ people' = people /\ opps' = opps
              /\ \A k \in DOMAIN req'[r].calls : req'[r].calls[k].op \in Reads
              /\ Len(req'[r].calls) <= 2
              /\ \A k \in DOMAIN req'[r].calls :
                    req'[r].calls[k].op = (IF k = 1 THEN "GET /opportunities/:id"
                                           ELSE "GET /people/:id")]_vars

\* a resolver request that read the opportunity and then its contact has been
\* answered
C19_Witness ==
    \E r \in Requests :
        /\ req[r].kind = "redirect" /\ req[r].pc = "done"
        /\ Len(req[r].calls) = 2 /\ req[r].calls[2].op = "GET /people/:id"

(* ------------------------------------------------------------------ *)
(* Submissions that are refused                                        *)
(* ------------------------------------------------------------------ *)
\* the payload lacks one of the required fields
Incomplete(form) == \E f \in {"firstName", "lastName", "email"} : form[f] = ""

\* this step is one of a posted submission whose payload is incomplete
IncompleteStep(r) ==
    /\ req'[r] # req[r]
    /\ req'[r].kind = "submit" /\ req'[r].method = "POST"
    /\ Incomplete(req'[r].form)

\* C20: a submission whose payload lacks first name, last name or email is
\* answered 400 with success:false; no CRM call is issued for it and the
\* CRM is left as it was.
C20_IncompleteRefused ==
    [][\A r \in Requests :
          IncompleteStep(r) =>
              /\ req'[r].pc = "done"
              /\ req'[r].status = 400
              /\ req'[r].body = <<"success:false">>
              /\ req'[r].calls = <<>>
              /\ people' = people /\ opps' = opps]_vars

\* a payload without email, one without first name and one without last
\* name have been refused
C20_Witness ==
    \A f \in {"firstName", "lastName", "email"} :
        \E r \in Requests :
            /\ req[r].kind = "submit" /\ req[r].pc = "done" /\ req[r].status = 400
            /\ req[r].form[f] = ""

(* ------------------------------------------------------------------ *)
(* Submissions that are accepted                                       *)
(* ------------------------------------------------------------------ *)
\* this step is the call r makes at position pc, and the call succeeded
SubmitCallOk(r, pc) ==
    /\ req[r].kind = "submit" /\ req[r].pc = pc /\ req'[r].pc # pc
    /\ LastCall(req'[r]).out = "ok"

\* the ops of the calls q has made, in order
Ops(q) == [k \in DOMAIN q.calls |-> q.calls[k].op]

\* C21: for a valid submission whose email matches no contact, the contact
\* is created before the opportunity, the created opportunity references the
\* new contact and lies in the fixed pipeline at the quiz-completed stage,
\* and the response is success with the id the CRM gave the opportunity.
C21_NewContactThenOpportunity ==
    [][\A r \in Requests :
          /\ (SubmitCallOk(r, "findPersonByEmail")
                 /\ ContactsWithEmail(req[r].form.email) = {})
              => /\ req'[r].pc = "createPerson"
                 /\ people' = people /\ opps' = opps
          /\ SubmitCallOk(r, "createPerson")
              => /\ Len(people') = Len(people) + 1
                 /\ req'[r].person = Len(people')
                 /\ people'[req'[r].person].emails[1].email = req[r].form.email
                 /\ opps' = opps
                 /\ req'[r].pc = "createCopperOpportunity"
          /\ (SubmitCallOk(r, "createCopperOpportunity")
                 /\ HasCall(req[r], {"POST /people"}))
              => LET id == Len(opps) + 1
                 IN /\ Len(opps') = id
                    /\ opps'[id].primary_contact_id = req[r].person
                    /\ opps'[id].pipeline_id = ESTATE_PLANNING_PIPELINE_ID
                    /\ opps'[id].pipeline_stage_id = COMPLETED_QUIZ_STAGE_ID
                    /\ req'[r].opportunityId = id
                    /\ IF workload.checkoutLinkEnabled
                       THEN req'[r].pc = "upsertCheckoutDetails_GET"
                       ELSE /\ req'[r].pc = "done" /\ req'[r].status = 200
                            /\ req'[r].body = <<"success:true">>]_vars

\* a submission created a contact, then an opportunity of that contact, and
\* was answered with success
C21_Witness ==
    \E r \in Requests :
        /\ req[r].pc = "done" /\ req[r].status = 200 /\ ~Faulted(req[r])
        /\ ~workload.checkoutLinkEnabled
        /\ req[r].form.email = "cat@x"
        /\ Ops(req[r]) = <<"POST /people/search emails", "POST /people", "POST /opportunities">>
        /\ req[r].person > 2
        /\ people[req[r].person].emails[1].email = "cat@x"
        /\ opps[req[r].opportunityId].primary_contact_id = req[r].person

\* the submissions were handled one after the other
SubmissionsInSequence ==
    \A r1, r2 \in Requests :
        (req[r1].kind = "submit" /\ req[r2].kind = "submit" /\ r1 # r2) => ~Overlap(r1, r2)

\* the emails contacts are stored under
StoredEmails ==
    UNION { {people[c].emails[k].email : k \in DOMAIN people[c].emails} : c \in DOMAIN people }

\* C22: across submissions handled one after the other, and whatever the
\* CRM answers to the contact search, there is at most one contact per email:
\* a submission whose email has a contact reuses it and creates none.
C22_OneContactPerEmail ==
    SubmissionsInSequence =>
        \A email \in StoredEmails : Cardinality(ContactsWithEmail(email)) <= 1

(* ------------------------------------------------------------------ *)
(* The phone numbers of a contact                                      *)
(* ------------------------------------------------------------------ *)
\* C23: under any interleaving of submissions for the same contact the
\* phone numbers stored on the contact only grow: every number the contact
\* held before a phone update is still stored after it.
C23_PhonesOnlyGrow ==
    [][\A c \in DOMAIN people :
          Range(people[c].phone_numbers) \subseteq Range(people'[c].phone_numbers)]_vars

(* ------------------------------------------------------------------ *)
(* Submissions whose creation calls are refused                        *)
(* ------------------------------------------------------------------ *)
\* the calls that create a record
Creations == {"POST /people", "POST /opportunities"}

\* one of q's creation calls was answered with a non-2xx status
CreationRefused(q) ==
    \E k \in DOMAIN q.calls : q.calls[k].op \in Creations /\ q.calls[k].out = "http_error"

\* C24: when the creation of the contact or of the opportunity is answered
\* non-2xx, the submission is answered with a 500-class status, body
\* success:false and an error message that includes the HTTP status of the
\* CRM's answer, and the submission attempts no later CRM write.
C24_RefusedCreationIsError ==
    \A r \in Requests :
        (req[r].kind = "submit" /\ CreationRefused(req[r]))
        => /\ req[r].pc = "done"
           /\ req[r].status >= 500 /\ req[r].status < 600
           /\ req[r].body = <<"success:false">>
           /\ "500" \in Range(req[r].error)
           /\ LastCall(req[r]).op \in Creations /\ LastCall(req[r]).out = "http_error"

(* ------------------------------------------------------------------ *)
(* The checkout link of a new opportunity                              *)
(* ------------------------------------------------------------------ *)
\* this step answers submission r with success, the checkout-link workflow
\* being enabled and no other request having run since r arrived
LinkSubmissionAnswered(r) ==
    /\ workload.checkoutLinkEnabled
    /\ req[r].kind = "submit" /\ req[r].pc # "done"
    /\ req'[r].pc = "done" /\ req'[r].status = 200 /\ req'[r].method = "POST"
    /\ Alone(r)

\* the custom field entries of the opportunity that hold a payment link
PaymentLinkEntries(o) ==
    {k \in DOMAIN o.custom_fields : o.custom_fields[k][1] = FIELD_IDS.paymentLink}

Rejected(q) == q.kind = "webhook" /\ q.pc = "done" /\ "rejected" \in Range(q.phases)

\* C26: any two webhook requests that fail the signature verification get
\* the same status and the same body, whatever part of the verification
\* failed: the response does not depend on the verifier's error detail.
C26_RejectionIsGeneric ==
    \A r1, r2 \in Requests :
        (Rejected(req[r1]) /\ Rejected(req[r2]))
        => req[r1].status = req[r2].status /\ req[r1].body = req[r2].body

(* ------------------------------------------------------------------ *)
(* The name of a new opportunity                                       *)
(* ------------------------------------------------------------------ *)
\* the label of a package code; every other code, and no code, has the
\* label of the will package
PackageLabel(code) ==
    CASE code = "will" -> "Will Package"
      [] code = "trust-individual" -> "Trust (Individual)"
      [] code = "trust-couple" -> "Trust (Couples)"
      [] code = "trust-update" -> "Update Existing Trust"
      [] OTHER -> "Will Package"

\* C27: the opportunity created for a valid submission is named
\* '<first> <last> - <label>', where the label is 'Will Package' for will,
\* 'Trust (Individual)' for trust-individual, 'Trust (Couples)' for
\* trust-couple, 'Update Existing Trust' for trust-update, and 'Will Package'
\* for every absent or unrecognized code.
C27_OpportunityName ==
    [][\A r \in Requests :
          SubmitCallOk(r, "createCopperOpportunity") =>
              opps'[Len(opps')].name =
                  <<req[r].form.firstName, " ", req[r].form.lastName, " - ",
                    PackageLabel(req[r].form.selectedPackage)>>]_vars

(* ------------------------------------------------------------------ *)
(* The payment lines of an applied event                               *)
(* ------------------------------------------------------------------ *)
\* this step answers delivery r as applied, its read of the opportunity
\* having succeeded and no other request having run since r arrived
AppliedAfterRead(r) ==
    /\ req[r].kind = "webhook" /\ req[r].pc = "markOpportunityPaid_PUT"
    /\ Applied(req'[r])
    /\ \A k \in DOMAIN req'[r].calls : req'[r].calls[k].out = "ok"
    /\ Alone(r)

\* the payment fields of the event that carry a value, with their labels
PaymentFields(event) ==
    { f \in { <<"Stripe Invoice ID", event.invoice_id>>,
              <<"Stripe Invoice URL", event.hosted_invoice_url>>,
              <<"Stripe Session ID", IF event.type = Checkout THEN event.id ELSE Undefined>>,
              <<"Stripe Payment Intent", event.payment_intent>> } : Truthy(f[2]) }

\* C28: after a successful apply whose preliminary read succeeded the notes
\* hold, for every payment field the event carries, a whole line
\* '<Label>: <value>', whatever the notes held before, also a line of the
\* same label with another value.
C28_PaymentLinesWhole ==
    [][\A r \in Requests :
          AppliedAfterRead(r) =>
              \A f \in PaymentFields(req[r].event) :
                  Line(f[1], f[2]) \in Range(opps'[req[r].opportunityId].details)]_vars

(* ------------------------------------------------------------------ *)
(* Concurrent applies of different events                              *)
(* ------------------------------------------------------------------ *)
\* the payment lines of the event delivery q carries
EventLines(q) == Range(PaymentLines(PaymentInfo(q.event)))

\* this step answers delivery r2 as applied to the opportunity that delivery
\* r1, of another event and handled at the same time, has been applied to;
\* both read the notes before either wrote them, and r2 sends its notes
RacingApply(r1, r2) ==
    /\ r1 # r2 /\ Overlap(r1, r2)
    /\ Applied(req[r1])
    /\ req[r2].kind = "webhook" /\ req[r2].pc = "markOpportunityPaid_PUT"
    /\ Applied(req'[r2])
    /\ req[r1].opportunityId = req[r2].opportunityId
    /\ ~Faulted(req[r1]) /\ ~Faulted(req'[r2])
    /\ EventLines(req[r1]) \cap EventLines(req[r2]) = {}
    /\ \A r \in {r1, r2} :
          (EventLines(req[r1]) \cup EventLines(req[r2])) \cap Range(req[r].existingDetails) = {}

\* C29: two different payment events applied at the same time to one
\* opportunity can overwrite each other's metadata: when both have read the
\* notes before either wrote them, both applies succeed and the notes hold
\* the payment lines of the event written last and none of the other's.
C29_LastWriteWins ==
    [][\A r1, r2 \in Requests :
          RacingApply(r1, r2) =>
              LET notes == Range(opps'[req[r2].opportunityId].details)
              IN /\ EventLines(req[r2]) \subseteq notes
                 /\ EventLines(req[r1]) \cap notes = {}]_vars

\* both applies have succeeded, and the notes of opportunity 1 hold the
\* payment lines of one event and none of the other's
C29_Witness ==
    \E r1, r2 \in Requests :
        /\ r1 # r2 /\ Overlap(r1, r2)
        /\ Applied(req[r1]) /\ Applied(req[r2])
        /\ ~Faulted(req[r1]) /\ ~Faulted(req[r2])
        /\ req[r1].opportunityId = 1 /\ req[r2].opportunityId = 1
        /\ req[r1].event = EvDirect /\ req[r2].event = EvDirectAgain
        /\ EventLines(req[r2]) \subseteq Range(opps[1].details)
        /\ EventLines(req[r1]) \cap Range(opps[1].details) = {}

(* ------------------------------------------------------------------ *)
(* One event, one opportunity                                          *)
(* ------------------------------------------------------------------ *)
\* this step is one of the handling of a webhook event
WebhookStep(r) == req'[r] # req[r] /\ req'[r].kind = "webhook"

\* the ids of the opportunities q has sent an update of
UpdatedIds(q) ==
    {q.calls[k].id : k \in {j \in DOMAIN q.calls : q.calls[j].op = "PUT /opportunities/:id"}}

\* C30: the handling of one webhook event mutates at most one opportunity:
\* at most one opportunity id is resolved over the whole handling, every
\* update call targets that id, and no other opportunity changes, whichever
\* steps of the waterfall ran.
C30_OneOpportunityPerEvent ==
    [][\A r \in Requests :
          WebhookStep(r) =>
              /\ req[r].opportunityId # 0 => req'[r].opportunityId = req[r].opportunityId
              /\ UpdatedIds(req'[r]) \subseteq {req'[r].opportunityId} \ {0}
              /\ \A o \in DOMAIN opps : opps'[o] # opps[o] => o = req'[r].opportunityId
              /\ Len(opps') = Len(opps)]_vars

\* an event resolved through the phone fallback, after an email search that
\* gave no opportunity, has been applied to one opportunity
C30_Witness ==
    \E r \in Requests :
        /\ Applied(req[r])
        /\ req[r].matchMethod = "phone_fallback"
        /\ HasCall(req[r], {"POST /people/search emails"})
        /\ UpdatedIds(req[r]) = {req[r].opportunityId}

(* ------------------------------------------------------------------ *)
(* The open-opportunity search                                         *)
(* ------------------------------------------------------------------ *)
\* the element the CRM lists first among the records S
FirstListed(S) == IF crmSort = "oldest_first" THEN Min(S) ELSE Max(S)

\* this step is the open-opportunity search of request r, and the CRM
\* answered it
OpenSearchStep(r) ==
    /\ req[r].kind = "webhook"
    /\ req[r].pc \in {"findOpenOpportunityByEmail", "findOpenOpportunityByPhone"}
    /\ req'[r] # req[r]
    /\ LastCall(req'[r]).out # "net_error"

\* this step is the update of an event that a fallback resolved, and the
\* CRM accepted it
FallbackApplyStep(r) ==
    /\ req[r].kind = "webhook" /\ req[r].pc = "markOpportunityPaid_PUT"
    /\ req[r].matchMethod \in {"email_fallback", "phone_fallback"}
    /\ Applied(req'[r])

\* C31: the open-opportunity search for a contact gives the id the CRM lists
\* first among that contact's opportunities of the fixed pipeline with status
\* Open, and null (0) when there is none or the search is answered non-2xx;
\* the update of an event resolved by a fallback moves exactly the
\* opportunity the search gave to the paid stage and leaves every other
\* opportunity as it was.
C31_FirstOpenOpportunity ==
    [][\A r \in Requests :
          /\ OpenSearchStep(r) =>
                req'[r].opportunityId =
                    IF /\ LastCall(req'[r]).out = "ok"
                       /\ OpenOpportunities(req[r].person) # {}
                    THEN FirstListed(OpenOpportunities(req[r].person))
                    ELSE 0
          /\ FallbackApplyStep(r) =>
                /\ req'[r].opportunityId = req[r].opportunityId
                /\ opps'[req[r].opportunityId].pipeline_stage_id = PAID_STAGE_ID
                /\ \A i \in DOMAIN opps \ {req[r].opportunityId} : opps'[i] = opps[i]
                /\ Len(opps') = Len(opps)]_vars

\* an event resolved through the email of a contact with several open
\* opportunities has been applied to the one the CRM lists first, and
\* another open opportunity of that contact is not at the paid stage
C31_Witness ==
    \E r \in Requests :
        /\ Applied(req[r]) /\ ~Faulted(req[r])
        /\ req[r].matchMethod = "email_fallback"
        /\ Cardinality(OpenOpportunities(req[r].person)) > 1
        /\ req[r].opportunityId = FirstListed(OpenOpportunities(req[r].person))
        /\ opps[req[r].opportunityId].pipeline_stage_id = PAID_STAGE_ID
        /\ \E i \in OpenOpportunities(req[r].person) :
              opps[i].pipeline_stage_id # PAID_STAGE_ID

(* ------------------------------------------------------------------ *)
(* The phone update of an existing contact                             *)
(* ------------------------------------------------------------------ *)
\* the calls of q that updated a contact
PhoneUpdates(q) == {k \in DOMAIN q.calls : q.calls[k].op = "PUT /people/:id"}

\* submission q found its contact, its phone update failed and no other of
\* its calls did
PhoneUpdateFailed(q) ==
    /\ q.kind = "submit" /\ q.person # 0
    /\ \E k \in PhoneUpdates(q) : q.calls[k].out # "ok"
    /\ \A k \in DOMAIN q.calls \ PhoneUpdates(q) : q.calls[k].out = "ok"

\* C32: a failed phone update (rejected fetch or non-2xx answer) is not
\* surfaced: the submission goes on to create the opportunity, and once
\* answered it has answered with success, without error, and the opportunity
\* it created is linked to the contact found.
C32_PhoneFailureSwallowed ==
    \A r \in Requests :
        PhoneUpdateFailed(req[r]) =>
            /\ req[r].error = <<>>
            /\ req[r].pc = "done" =>
                  /\ req[r].status = 200 /\ req[r].body = <<"success:true">>
                  /\ req[r].opportunityId \in DOMAIN opps
                  /\ opps[req[r].opportunityId].primary_contact_id = req[r].person
                  /\ opps[req[r].opportunityId].name[1] = req[r].form.firstName

\* a submission for Ann whose phone update was refused has been answered
\* with success; Ann's numbers are without the submitted one
C32_Witness ==
    \E r \in Requests :
        /\ PhoneUpdateFailed(req[r]) /\ req[r].pc = "done" /\ req[r].status = 200
        /\ \E k \in PhoneUpdates(req[r]) : req[r].calls[k].out = "http_error"
        /\ req[r].form.email = "ann@x"
        /\ opps[req[r].opportunityId].primary_contact_id = req[r].person
        /\ ~PhoneExists(people[req[r].person].phone_numbers, req[r].form.phone)

(* ------------------------------------------------------------------ *)
(* The checkout state in the notes of a paid opportunity               *)
(* ------------------------------------------------------------------ *)
\* a webhook apply has moved opportunity o to the paid stage
PaidByWebhook(o) ==
    /\ opps[o].pipeline_stage_id = PAID_STAGE_ID
    /\ \E r \in Requests : Applied(req[r]) /\ req[r].opportunityId = o

OtherTypeStep(r) ==
    /\ req'[r] # req[r]
    /\ IsDelivery(req'[r])
    /\ req'[r].event.type \notin {Checkout, InvoicePaid}

\* C34: a verified event whose type is neither checkout.session.completed
\* nor invoice.payment_succeeded is answered at once with 200 {received:true};
\* no remote call is made for it and the CRM's contacts and opportunities
\* are unchanged.
C34_OtherTypeAcknowledged ==
    [][\A r \in Requests :
          OtherTypeStep(r) =>
              /\ req[r].pc = "idle" /\ req'[r].pc = "done"
              /\ req'[r].status = 200 /\ req'[r].body = Received
              /\ req'[r].calls = <<>>
              /\ people' = people /\ opps' = opps]_vars

\* the event of a failed invoice payment of opportunity 1 has been
\* acknowledged: no call was made, and the opportunity it names is not at
\* the paid stage
C34_Witness ==
    \E r \in Requests :
        /\ IsDelivery(req[r]) /\ req[r].pc = "done"
        /\ req[r].event.type = "invoice.payment_failed"
        /\ ReferenceId(req[r].event) = 1
        /\ req[r].status = 200 /\ req[r].body = Received
        /\ req[r].calls = <<>>
        /\ opps[1].pipeline_stage_id # PAID_STAGE_ID

(* ------------------------------------------------------------------ *)
(* Absent values and empty values                                      *)
(* ------------------------------------------------------------------ *)
\* the positions of the lines of text t that begin `label:`
Begins(t, label) ==
    {k \in DOMAIN t : Len(t[k]) >= 2 /\ t[k][1] = label /\ t[k][2] = ":"}

\* the line `label: ` of an empty value
EmptyLine(label) == <<label, ":", " ">>

\* C35: in upsertDetailsLines an absent value is a no-op and an empty-string
\* value is an update: updates whose values are all absent return the text
\* as given; an entry whose value is '' leaves the line 'L: ' in the result,
\* in the place of the first line of L when there is one and as a new last
\* line otherwise; the line of a label without a line is appended after the
\* text when the text is non-empty, and is the whole result when the text
\* is empty.
C35_AbsentVersusEmpty ==
    Len(upsert.results) >= 1 =>
        LET t == upsert.details
            O == upsert.results[1]
            u == upsert.updates
        IN /\ (\A e \in DOMAIN u : u[e][2] = Undefined) => O = t
           /\ \A e \in DOMAIN u : u[e][2] = <<>> => EmptyLine(u[e][1]) \in Range(O)
           /\ (Len(u) = 1 /\ u[1][2] # Undefined) =>
                 LET L == u[1][1]
                     line == <<L, ":", " ">> \o u[1][2]
                 IN IF Begins(t, L) # {}
                    THEN /\ Len(O) = Len(t)
                         /\ u[1][2] = <<>> => O[Min(Begins(t, L))] = EmptyLine(L)
                         /\ \A k \in DOMAIN t \ {Min(Begins(t, L))} : O[k] = t[k]
                    ELSE IF t = EmptyText THEN O = <<line>>
                         ELSE O = t \o <<line>>

\* a call with the empty string for one label has replaced that label's
\* line in a text, and the text it was given was not empty
C35_Witness ==
    /\ Len(upsert.results) >= 1
    /\ upsert.updates = << <<"Checkout State", <<>> >> >>
    /\ Line("Checkout State", <<"Pending">>) \in Range(upsert.details)
    /\ EmptyLine("Checkout State") \in Range(upsert.results[1])
    /\ upsert.results[1] # upsert.details
    /\ Len(upsert.results[1]) = Len(upsert.details)

(* ------------------------------------------------------------------ *)
(* When the phone update is sent, and what it sends                    *)
(* ------------------------------------------------------------------ *)
\* the contact record holds a number with the digits of `phone`
StoresDigits(contact, phone) ==
    \E k \in DOMAIN contact.phone_numbers :
        Digits(contact.phone_numbers[k].number) = Digits(phone)

\* this step is the contact search of submission r, it found a contact,
\* and the submission carries a phone number
FoundWithPhone(r) ==
    /\ req[r].kind = "submit" /\ req[r].pc = "findPersonByEmail"
    /\ req'[r].pc # "findPersonByEmail" /\ req'[r].person # 0
    /\ req[r].form.phone # <<>>

\* this step is the phone update of submission r
PhoneUpdateStep(r) ==
    req[r].kind = "submit" /\ req[r].pc = "updatePersonPhone" /\ req'[r] # req[r]

\* C36: the phone update sends nothing when the contact found already
\* stores a number with the digits of the submitted one, and otherwise sends
\* exactly one update, whose phone list is the list of the contact as the
\* search returned it followed by the submitted number; that list is the
\* CRM's own when no other request ran since the submission arrived.
C36_PhoneUpdate ==
    [][\A r \in Requests :
          /\ FoundWithPhone(r) =>
                IF StoresDigits(people[req'[r].person], req[r].form.phone)
                THEN req'[r].pc = "createCopperOpportunity" /\ PhoneUpdates(req'[r]) = {}
                ELSE req'[r].pc = "updatePersonPhone" /\ PhoneUpdates(req'[r]) = {}
          /\ PhoneUpdateStep(r) =>
                /\ Cardinality(PhoneUpdates(req'[r])) = 1
                /\ req'[r].pc = "createCopperOpportunity"
                /\ LastCall(req'[r]).id = req[r].person
                /\ LastCall(req'[r]).out = "ok" =>
                      people'[req[r].person].phone_numbers =
                          req[r].personPhones
                              \o << [number |-> req[r].form.phone, category |-> "mobile"] >>
                /\ Alone(r) => req[r].personPhones = people[req[r].person].phone_numbers
                /\ \A c \in DOMAIN people \ {req[r].person} : people'[c] = people[c]
          /\ (req[r].kind = "submit" /\ ~PhoneUpdateStep(r)) =>
                PhoneUpdates(req'[r]) = PhoneUpdates(req[r])]_vars

\* a submission for Ann with a new number has appended it to her list, and
\* a submission with her stored number written without punctuation has been
\* answered without any update of the contact
C36_Witness ==
    \E r1, r2 \in Requests :
        /\ req[r1].pc = "done" /\ req[r1].status = 200 /\ req[r1].form = FormAnnAgain
        /\ Cardinality(PhoneUpdates(req[r1])) = 1 /\ ~Faulted(req[r1])
        /\ req[r2].pc = "done" /\ req[r2].status = 200 /\ req[r2].form = FormAnnPlain
        /\ PhoneUpdates(req[r2]) = {}
        /\ people[1].phone_numbers = << [number |-> PhoneA, category |-> "mobile"],
                                        [number |-> PhoneB, category |-> "mobile"] >>

====
